---- MODULE Spec2Model ----
(***************************************************************************)
(* Ledger / registry engine of the bullion back office: Metal Transaction  *)
(* lifecycle (create, update, delete, status update), the posting builder, *)
(* the balance mutator, fund transfers, opening balances and registry      *)
(* maintenance.  Amounts are integers in thousandths (1000 = 1.000), so    *)
(* that the 2-decimal rounding of the cash delta is observable.            *)
(***************************************************************************)
EXTENDS Integers, Sequences, FiniteSets, TLC

VARIABLES
  accounts,   \* Account collection: party -> [isActive, grams, value, cash]
  txns,       \* MetalTransaction collection: id -> document or NoDoc
  registry,   \* Registry collection: set of rows
  inventory,  \* Inventory collection: stock -> [pcs, gross] or NoDoc
  invLog,     \* InventoryLog collection: set of rows
  transfers,  \* FundTransfer collection: set of documents
  books,      \* Entry, AccountMaster, AccountLog and TransactionFixing collections
  nextId,     \* next database _id to hand out
  proc,       \* request handlers in flight: process -> program state
  sess,       \* mongoose client sessions: process -> session state
  pre,        \* store as it was when the handler of each process started
  hist        \* handlers started so far, in order

vars == <<accounts, txns, registry, inventory, invLog, transfers, books, nextId, proc, sess,
          pre, hist>>

store == [accounts |-> accounts, txns |-> txns, registry |-> registry,
          inventory |-> inventory, invLog |-> invLog, transfers |-> transfers,
          books |-> books]

-----------------------------------------------------------------------------
(* Bounds of the model *)

MaxOps == 2

-----------------------------------------------------------------------------
(* Domains *)

Procs == {"p1", "p2"}
Parties == {"A", "B", "Z"}
Stocks == {"S1", "S2"}
BaseIds == {100, 101}
NoDoc == [none |-> TRUE]
NoParty == "null"
Kinds == {"purchase", "sale", "purchaseReturn", "saleReturn"}

RECURSIVE Sum(_)
Sum(s) == IF s = <<>> THEN 0 ELSE Head(s) + Sum(Tail(s))

Abs(x) == IF x < 0 THEN -x ELSE x

\* JS `a || b` on numbers
OrElse(a, b) == IF a # 0 THEN a ELSE b

\* Math.floor(x * 100) / 100 on thousandths
ToFixed2Floor(x) == (x \div 10) * 10

\* parseFloat(x.toFixed(2)) on thousandths: nearest multiple of 10
ToFixed2(x) == IF x < 0 THEN -(((-x + 5) \div 10) * 10) ELSE ((x + 5) \div 10) * 10

-----------------------------------------------------------------------------
(* Stock items and transaction payloads *)

Item(stock, pcs, gross, pure, base, mk, prem, sub) ==
  [stockCode |-> stock, pieces |-> pcs, grossWeight |-> gross, pureWeight |-> pure,
   purity |-> 1000, rate |-> 0,
   makingChargesTotal |-> mk, makingAmount |-> mk,
   premiumTotal |-> prem, premiumAmount |-> prem,
   vatAmount |-> 0, otherAmount |-> 0,
   baseAmount |-> base, subTotal |-> sub, itemVat |-> 0]

\* 100 g pure, 105 g gross, making charges 50.000
ItemBar == Item("S1", 2, 105000, 100000, 0, 50000, 0, 50000)
\* no pure weight but a gold value of 100.000, making charges 1.234
ItemValueOnly == Item("S1", 0, 0, 0, 100000, 1234, 0, 101234)
\* 10 g with a premium of 5.000
ItemPremium == Item("S1", 1, 10000, 10000, 20000, 0, 5000, 25000)
\* 10 g with a discount of 0.500, on a stock that has no inventory record
ItemDiscount == Item("S2", 1, 10000, 10000, 20000, 2000, -500, 21500)

\* 10 g with making charges of 2.004 and a discount of 0.500
ItemRebate == Item("S1", 1, 10000, 10000, 20000, 2004, -500, 21504)

\* 20 g with making charges 10.000, other charges 3.000 and VAT 2.500
ItemCharged ==
  [Item("S1", 1, 21000, 20000, 40000, 10000, 0, 55500) EXCEPT
     !.otherAmount = 3000, !.vatAmount = 2500, !.itemVat = 2500]

Payload(kind, fx, ufx, party, items, total, voucher) ==
  [transactionType |-> kind, fixed |-> fx, unfix |-> ufx, partyCode |-> party,
   stockItems |-> items, totalAmountAED |-> total, voucherNumber |-> voucher]

-----------------------------------------------------------------------------
(* Totals Calculator *)

calculateTotals(stockItems, totalAmountAED) ==
  LET n == Len(stockItems)
      col(F(_)) == Sum([i \in 1..n |-> F(stockItems[i])])
      making(it) == OrElse(it.makingChargesTotal, it.makingAmount)
      premDisc(it) == OrElse(it.premiumTotal, it.premiumAmount)
      prem(it) == IF premDisc(it) > 0 THEN premDisc(it) ELSE 0
      disc(it) == IF premDisc(it) < 0 THEN Abs(premDisc(it)) ELSE 0
      vat(it) == it.vatAmount
      other(it) == it.otherAmount
      gold(it) == it.baseAmount
      pure(it) == it.pureWeight
      gross(it) == it.grossWeight
      pur(it) == it.purity
      rated == {i \in 1..n : stockItems[i].rate # 0}
      firstRate == IF rated = {} THEN 0
                   ELSE stockItems[CHOOSE i \in rated : \A j \in rated : i <= j].rate
  IN [makingCharges |-> col(making), premium |-> col(prem), discount |-> col(disc),
      goldValue |-> col(gold), pureWeight |-> col(pure), grossWeight |-> col(gross),
      purity |-> col(pur), vatAmount |-> col(vat), otherChargesAmount |-> col(other),
      goldBidValue |-> firstRate, totalAmount |-> totalAmountAED]

\* MetalTransactionSchema.methods.calculateSessionTotals: the session total
\* is rebuilt from the items' sub totals and item VAT
calculateSessionTotals(doc) ==
  IF Len(doc.stockItems) = 0 THEN doc
  ELSE LET n == Len(doc.stockItems)
           net == Sum([i \in 1..n |-> doc.stockItems[i].subTotal])
           vat == Sum([i \in 1..n |-> doc.stockItems[i].itemVat])
       IN [doc EXCEPT !.totalAmountAED = net + vat]

-----------------------------------------------------------------------------
(* Mode resolution *)

getTransactionMode(fixed, unfix) ==
  IF fixed /\ ~unfix THEN "fix"
  ELSE IF unfix /\ ~fixed THEN "unfix"
  ELSE IF ~fixed /\ ~unfix THEN "unfix"
  ELSE "fix"

-----------------------------------------------------------------------------
(* Balance Mutator *)

Changes(g, v, c, p, d, o) ==
  [goldBalance |-> g, goldValue |-> v, cashBalance |-> c,
   premiumBalance |-> p, discountBalance |-> d, otherCharges |-> o]

\* the table with the discount of an unfix purchase added instead of deducted
calculateBalanceChangesDiscountAdded(transactionType, mode, totals) ==
  LET plusUnfix == Changes(totals.pureWeight, totals.goldValue, totals.makingCharges,
                           totals.premium, totals.discount, totals.otherChargesAmount)
      minusUnfix == Changes(-totals.pureWeight, -totals.goldValue, -totals.makingCharges,
                            -totals.premium, totals.discount, -totals.otherChargesAmount)
      plusFix == Changes(0, 0, totals.totalAmount, 0, 0, 0)
      minusFix == Changes(0, 0, -totals.totalAmount, 0, 0, 0)
  IN CASE mode = "unfix" /\ transactionType \in {"purchase", "saleReturn"} -> plusUnfix
       [] mode = "unfix" /\ transactionType \in {"sale", "purchaseReturn"} -> minusUnfix
       [] mode = "fix" /\ transactionType \in {"purchase", "saleReturn"} -> plusFix
       [] mode = "fix" /\ transactionType \in {"sale", "purchaseReturn"} -> minusFix
       [] OTHER -> Changes(0, 0, 0, 0, 0, 0)

calculateBalanceChanges(transactionType, mode, totals) ==
  LET plusUnfix == Changes(totals.pureWeight, totals.goldValue, totals.makingCharges,
                           totals.premium, -totals.discount, totals.otherChargesAmount)
      minusUnfix == Changes(-totals.pureWeight, -totals.goldValue, -totals.makingCharges,
                            -totals.premium, totals.discount, -totals.otherChargesAmount)
      plusFix == Changes(0, 0, totals.totalAmount, 0, 0, 0)
      minusFix == Changes(0, 0, -totals.totalAmount, 0, 0, 0)
  IN CASE transactionType = "purchase" /\ mode = "unfix" -> plusUnfix
       [] transactionType = "purchase" /\ mode = "fix" -> plusFix
       [] transactionType = "sale" /\ mode = "unfix" -> minusUnfix
       [] transactionType = "sale" /\ mode = "fix" -> minusFix
       [] transactionType = "purchaseReturn" /\ mode = "unfix" -> minusUnfix
       [] transactionType = "purchaseReturn" /\ mode = "fix" -> minusFix
       [] transactionType = "saleReturn" /\ mode = "unfix" -> plusUnfix
       [] transactionType = "saleReturn" /\ mode = "fix" -> plusFix
       [] OTHER -> Changes(0, 0, 0, 0, 0, 0)

\* field increments ($inc) on an Account document
Inc(g, v, c) == [grams |-> g, value |-> v, cash |-> c]

\* the increments with the net cash change applied as computed
buildUpdateOperationsUnrounded(balanceChanges) ==
  LET netCashChange == balanceChanges.cashBalance + balanceChanges.premiumBalance
                       + balanceChanges.discountBalance
      gold == balanceChanges.goldBalance # 0
  IN Inc(IF gold THEN balanceChanges.goldBalance ELSE 0,
         IF gold THEN balanceChanges.goldValue ELSE 0,
         netCashChange)

buildUpdateOperations(balanceChanges) ==
  LET netCashChange == balanceChanges.cashBalance + balanceChanges.premiumBalance
                       + balanceChanges.discountBalance
      gold == balanceChanges.goldBalance # 0
  IN Inc(IF gold THEN balanceChanges.goldBalance ELSE 0,
         IF gold THEN balanceChanges.goldValue ELSE 0,
         IF netCashChange # 0 THEN ToFixed2(netCashChange) ELSE 0)

\* the $inc that updateAccountBalances sends for a transaction document
AccountBalanceInc(doc) ==
  buildUpdateOperations(
    calculateBalanceChanges(doc.transactionType,
                            getTransactionMode(doc.fixed, doc.unfix),
                            calculateTotals(doc.stockItems, doc.totalAmountAED)))

\* the $inc that updateTradeDebtorsBalances sends for a transaction document
TradeDebtorsInc(doc, isReversal) ==
  LET balanceChanges ==
        calculateBalanceChanges(doc.transactionType,
                                getTransactionMode(doc.fixed, doc.unfix),
                                calculateTotals(doc.stockItems, doc.totalAmountAED))
      netCashChange == balanceChanges.cashBalance + balanceChanges.premiumBalance
                       + balanceChanges.discountBalance
      gold == balanceChanges.goldBalance # 0 \/ balanceChanges.goldValue # 0
      sign == IF isReversal THEN -1 ELSE 1
  IN Inc(IF gold THEN sign * balanceChanges.goldBalance ELSE 0,
         IF gold THEN sign * balanceChanges.goldValue ELSE 0,
         IF netCashChange # 0 THEN sign * netCashChange ELSE 0)

\* the increments with the cash amount kept from going below zero
ApplyIncFloorZero(acc, inc) ==
  [acc EXCEPT !.grams = @ + inc.grams, !.value = @ + inc.value,
              !.cash = IF @ + inc.cash < 0 THEN 0 ELSE @ + inc.cash]

ApplyInc(acc, inc) ==
  [acc EXCEPT !.grams = @ + inc.grams, !.value = @ + inc.value, !.cash = @ + inc.cash]

AddInc(a, b) == Inc(a.grams + b.grams, a.value + b.value, a.cash + b.cash)

ZeroInc == Inc(0, 0, 0)

-----------------------------------------------------------------------------
(* Posting Builder *)

Leg(g, sfx, ty, pty, v, c, d, th) ==
  [guard |-> g, suffix |-> sfx, type |-> ty, toParty |-> pty,
   value |-> v, credit |-> c, debit |-> d, throws |-> th]

buildPurchaseFixEntries ==
  <<
    Leg("pureWeight", "PARTY-GOLD", "purchase-fixing", TRUE, "pureWeight", "pureWeight", "zero", FALSE),
    Leg("goldValue", "001", "PARTY_CASH_BALANCE", TRUE, "goldValue", "goldValue", "zero", FALSE),
    Leg("makingCharges", "002", "MAKING_CHARGES", TRUE, "makingCharges", "makingCharges", "zero", FALSE),
    Leg("otherChargesAmount", "008", "OTHER_CHARGES", TRUE, "otherChargesAmount", "otherChargesAmount", "zero", FALSE),
    Leg("vatAmount", "009", "VAT_AMOUNT", TRUE, "vatAmount", "vatAmount", "zero", FALSE),
    Leg("premium", "003", "PREMIUM", TRUE, "premium", "premium", "zero", FALSE),
    Leg("discount", "007", "DISCOUNT", TRUE, "discount", "zero", "discount", FALSE),
    Leg("pureWeight", "004", "GOLD", FALSE, "pureWeight", "zero", "pureWeight", FALSE),
    Leg("grossWeight", "005", "GOLD_STOCK", FALSE, "grossWeight", "zero", "grossWeight", FALSE)
  >>
buildPurchaseUnfixEntries ==
  <<
    Leg("pureWeight", "001", "PARTY_GOLD_BALANCE", TRUE, "pureWeight", "pureWeight", "zero", FALSE),
    Leg("makingCharges", "003", "MAKING_CHARGES", TRUE, "makingCharges", "makingCharges", "zero", FALSE),
    Leg("otherChargesAmount", "008", "OTHER_CHARGES", TRUE, "otherChargesAmount", "otherChargesAmount", "zero", FALSE),
    Leg("vatAmount", "009", "VAT_AMOUNT", TRUE, "vatAmount", "vatAmount", "zero", FALSE),
    Leg("premium", "004", "PREMIUM", TRUE, "premium", "premium", "zero", FALSE),
    Leg("discount", "007", "DISCOUNT", TRUE, "discount", "zero", "discount", FALSE),
    Leg("pureWeight", "005", "GOLD", FALSE, "pureWeight", "zero", "pureWeight", FALSE),
    Leg("grossWeight", "006", "GOLD_STOCK", FALSE, "grossWeight", "zero", "grossWeight", FALSE)
  >>
buildPurchaseReturnFixEntries ==
  <<
    Leg("pureWeight", "PARTY-GOLD", "purchase-fixing", TRUE, "pureWeight", "zero", "pureWeight", FALSE),
    Leg("totalAmount", "001", "PARTY_CASH_BALANCE", TRUE, "totalAmount", "zero", "totalAmount", FALSE),
    Leg("makingCharges", "002", "MAKING_CHARGES", TRUE, "makingCharges", "zero", "makingCharges", FALSE),
    Leg("otherChargesAmount", "008", "OTHER_CHARGES", TRUE, "otherChargesAmount", "otherChargesAmount", "zero", FALSE),
    Leg("vatAmount", "009", "VAT_AMOUNT", TRUE, "vatAmount", "zero", "vatAmount", FALSE),
    Leg("premium", "003", "PREMIUM", TRUE, "premium", "zero", "premium", FALSE),
    Leg("discount", "007", "DISCOUNT", TRUE, "discount", "discount", "zero", FALSE),
    Leg("pureWeight", "004", "GOLD", FALSE, "pureWeight", "pureWeight", "zero", FALSE),
    Leg("grossWeight", "005", "GOLD_STOCK", FALSE, "grossWeight", "grossWeight", "zero", FALSE)
  >>
buildPurchaseReturnUnfixEntries ==
  <<
    Leg("pureWeight", "001", "PARTY_GOLD_BALANCE", TRUE, "pureWeight", "zero", "pureWeight", FALSE),
    Leg("makingCharges", "003", "MAKING_CHARGES", TRUE, "makingCharges", "zero", "makingCharges", FALSE),
    Leg("otherChargesAmount", "008", "OTHER_CHARGES", TRUE, "otherChargesAmount", "zero", "zero", FALSE),
    Leg("vatAmount", "009", "VAT_AMOUNT", TRUE, "vatAmount", "vatAmount", "zero", FALSE),
    Leg("premium", "004", "PREMIUM", TRUE, "premium", "zero", "premium", TRUE),
    Leg("discount", "007", "DISCOUNT", TRUE, "discount", "discount", "zero", FALSE),
    Leg("pureWeight", "005", "GOLD", FALSE, "pureWeight", "pureWeight", "zero", FALSE),
    Leg("grossWeight", "006", "GOLD_STOCK", FALSE, "grossWeight", "grossWeight", "zero", FALSE)
  >>
buildSaleFixEntries ==
  <<
    Leg("pureWeight", "PARTY-GOLD", "sales-fixing", TRUE, "pureWeight", "zero", "pureWeight", FALSE),
    Leg("totalAmount", "001", "PARTY_CASH_BALANCE", TRUE, "totalAmount", "zero", "totalAmount", FALSE),
    Leg("makingCharges", "002", "MAKING_CHARGES", TRUE, "makingCharges", "zero", "makingCharges", FALSE),
    Leg("otherChargesAmount", "008", "OTHER_CHARGES", TRUE, "otherChargesAmount", "zero", "otherChargesAmount", FALSE),
    Leg("vatAmount", "009", "VAT_AMOUNT", TRUE, "vatAmount", "zero", "vatAmount", FALSE),
    Leg("premium", "003", "PREMIUM", TRUE, "premium", "zero", "premium", FALSE),
    Leg("discount", "007", "DISCOUNT", TRUE, "discount", "discount", "zero", FALSE),
    Leg("pureWeight", "004", "GOLD", FALSE, "pureWeight", "pureWeight", "zero", FALSE),
    Leg("grossWeight", "005", "GOLD_STOCK", FALSE, "grossWeight", "grossWeight", "zero", FALSE)
  >>
buildSaleUnfixEntries ==
  <<
    Leg("pureWeight", "001", "PARTY_GOLD_BALANCE", TRUE, "pureWeight", "zero", "pureWeight", FALSE),
    Leg("makingCharges", "003", "MAKING_CHARGES", TRUE, "makingCharges", "zero", "makingCharges", FALSE),
    Leg("otherChargesAmount", "008", "OTHER_CHARGES", TRUE, "otherChargesAmount", "zero", "otherChargesAmount", FALSE),
    Leg("vatAmount", "009", "VAT_AMOUNT", TRUE, "vatAmount", "zero", "vatAmount", FALSE),
    Leg("premium", "004", "PREMIUM", TRUE, "premium", "zero", "premium", FALSE),
    Leg("discount", "007", "DISCOUNT", TRUE, "discount", "discount", "zero", FALSE),
    Leg("pureWeight", "005", "GOLD", FALSE, "pureWeight", "pureWeight", "zero", FALSE),
    Leg("grossWeight", "006", "GOLD_STOCK", FALSE, "grossWeight", "grossWeight", "zero", FALSE)
  >>
buildSaleReturnUnfixEntries ==
  <<
    Leg("pureWeight", "001", "PARTY_GOLD_BALANCE", TRUE, "pureWeight", "pureWeight", "zero", FALSE),
    Leg("makingCharges", "003", "MAKING_CHARGES", TRUE, "makingCharges", "makingCharges", "zero", FALSE),
    Leg("otherChargesAmount", "008", "OTHER_CHARGES", TRUE, "otherChargesAmount", "otherChargesAmount", "zero", FALSE),
    Leg("vatAmount", "009", "VAT_AMOUNT", TRUE, "vatAmount", "vatAmount", "zero", FALSE),
    Leg("premium", "004", "PREMIUM", TRUE, "premium", "premium", "zero", FALSE),
    Leg("discount", "007", "DISCOUNT", TRUE, "discount", "zero", "discount", FALSE),
    Leg("pureWeight", "005", "GOLD", FALSE, "pureWeight", "zero", "pureWeight", FALSE),
    Leg("grossWeight", "006", "GOLD_STOCK", FALSE, "grossWeight", "zero", "grossWeight", FALSE)
  >>
buildSaleReturnFixEntries ==
  <<
    Leg("pureWeight", "PARTY-GOLD", "sale-fixing", TRUE, "pureWeight", "pureWeight", "zero", FALSE),
    Leg("totalAmount", "001", "PARTY_CASH_BALANCE", TRUE, "totalAmount", "totalAmount", "zero", FALSE),
    Leg("makingCharges", "002", "MAKING_CHARGES", TRUE, "makingCharges", "makingCharges", "zero", FALSE),
    Leg("otherChargesAmount", "008", "OTHER_CHARGES", TRUE, "otherChargesAmount", "otherChargesAmount", "zero", FALSE),
    Leg("vatAmount", "009", "VAT_AMOUNT", TRUE, "vatAmount", "vatAmount", "zero", FALSE),
    Leg("premium", "003", "PREMIUM", TRUE, "premium", "premium", "zero", FALSE),
    Leg("discount", "007", "DISCOUNT", TRUE, "discount", "zero", "discount", FALSE),
    Leg("pureWeight", "004", "GOLD", FALSE, "pureWeight", "zero", "pureWeight", FALSE),
    Leg("grossWeight", "005", "GOLD_STOCK", FALSE, "grossWeight", "zero", "grossWeight", FALSE)
  >>

Amount(totals, f) == IF f = "zero" THEN 0 ELSE totals[f]

\* an entry, or nothing when the value is not positive
createRegistryEntry(baseId, metalTransactionId, suffix, type, partyId, value, credit, debit, reference) ==
  IF value <= 0 /\ type \notin {"sales-fixing", "sale-return-fixing"} THEN <<>>
  ELSE << [base |-> baseId, suffix |-> suffix, owner |-> <<"metal", metalTransactionId>>,
           type |-> type, party |-> partyId, value |-> value, credit |-> credit,
           debit |-> debit, reference |-> reference] >>

BuilderFor(transactionType, mode) ==
  CASE transactionType = "purchase" /\ mode = "fix" -> buildPurchaseFixEntries
    [] transactionType = "purchase" /\ mode = "unfix" -> buildPurchaseUnfixEntries
    [] transactionType = "sale" /\ mode = "fix" -> buildSaleFixEntries
    [] transactionType = "sale" /\ mode = "unfix" -> buildSaleUnfixEntries
    [] transactionType = "purchaseReturn" /\ mode = "fix" -> buildPurchaseReturnFixEntries
    [] transactionType = "purchaseReturn" /\ mode = "unfix" -> buildPurchaseReturnUnfixEntries
    [] transactionType = "saleReturn" /\ mode = "fix" -> buildSaleReturnFixEntries
    [] transactionType = "saleReturn" /\ mode = "unfix" -> buildSaleReturnUnfixEntries
    [] OTHER -> <<>>

RECURSIVE Flatten(_)
Flatten(ss) == IF ss = <<>> THEN <<>> ELSE Head(ss) \o Flatten(Tail(ss))

\* the legs of one stock item with the tests on the components left out
ItemEntriesUnguarded(legs, totals, id, partyId, baseId, reference) ==
  Flatten([k \in 1..Len(legs) |->
    createRegistryEntry(baseId, id, legs[k].suffix, legs[k].type,
                        IF legs[k].toParty THEN partyId ELSE NoParty,
                        Amount(totals, legs[k].value),
                        Amount(totals, legs[k].credit),
                        Amount(totals, legs[k].debit), reference)])

\* the legs of one stock item, in template order
ItemEntries(legs, totals, id, partyId, baseId, reference) ==
  Flatten([k \in 1..Len(legs) |->
    IF Amount(totals, legs[k].guard) > 0
    THEN createRegistryEntry(baseId, id, legs[k].suffix, legs[k].type,
                             IF legs[k].toParty THEN partyId ELSE NoParty,
                             Amount(totals, legs[k].value),
                             Amount(totals, legs[k].credit),
                             Amount(totals, legs[k].debit), reference)
    ELSE <<>>])

buildRegistryEntries(doc, id, partyId, baseId) ==
  LET mode == getTransactionMode(doc.fixed, doc.unfix)
      legs == BuilderFor(doc.transactionType, mode)
  IN Flatten([i \in 1..Len(doc.stockItems) |->
       ItemEntries(legs, calculateTotals(<<doc.stockItems[i]>>, doc.totalAmountAED),
                   id, partyId, baseId, doc.voucherNumber)])

\* a template leg that cannot be evaluated raises while the entries are built
buildRegistryEntriesThrows(doc) ==
  LET mode == getTransactionMode(doc.fixed, doc.unfix)
      legs == BuilderFor(doc.transactionType, mode)
  IN \E i \in 1..Len(doc.stockItems) : \E k \in 1..Len(legs) :
       /\ legs[k].throws
       /\ Amount(calculateTotals(<<doc.stockItems[i]>>, doc.totalAmountAED), legs[k].guard) > 0

\* rows as stored: each entry gets its own _id
StoredRows(entries, firstId) ==
  { [rid |-> firstId + k - 1] @@ entries[k] : k \in 1..Len(entries) }

-----------------------------------------------------------------------------
(* Handler and session state *)

IdleProc ==
  [op |-> "idle", pc |-> "idle", t |-> 0, doc |-> NoDoc, orig |-> NoDoc,
   oldParty |-> NoParty, newParty |-> NoParty, entries |-> <<>>, idx |-> 0,
   result |-> "none", reversal |-> "none", upd |-> NoDoc, local |-> NoDoc]

NoSession ==
  [state |-> "none", inc |-> [a \in Parties |-> ZeroInc], regDel |-> {},
   regAdd |-> {}, txnPut |-> NoDoc, logDel |-> {}, logAdd |-> {},
   invInc |-> [s \in Stocks |-> [pcs |-> 0, gross |-> 0]]]

CanStart(p) == proc[p].pc \in {"idle", "done"} /\ Len(hist) < MaxOps

Started(p, name) ==
  /\ hist' = Append(hist, name)
  /\ pre' = [pre EXCEPT ![p] = store]

Finished(st, res) == [st EXCEPT !.pc = "done", !.result = res]

RowsOf(rows, id) == {r \in rows : r.owner = <<"metal", id>>}

-----------------------------------------------------------------------------
(* Create *)

validateTransactionData(data) ==
  /\ data.partyCode # NoParty
  /\ data.transactionType \in Kinds
  /\ Len(data.stockItems) > 0
  /\ \A i \in 1..Len(data.stockItems) :
       /\ data.stockItems[i].pureWeight >= 0
       /\ data.stockItems[i].grossWeight >= 0
       /\ data.stockItems[i].purity > 0 /\ data.stockItems[i].purity <= 1000

validateParty(partyCode) == partyCode \in Parties /\ accounts[partyCode].isActive

\* new MetalTransaction({...transactionData}); session totals are computed
\* only when no total was supplied
createTransaction(data) ==
  LET doc == data @@ [status |-> "draft", isActive |-> TRUE]
  IN IF data.totalAmountAED = 0 THEN calculateSessionTotals(doc) ELSE doc

\* MetalTransactionService.createMetalTransaction: one withTransaction block
createMetalTransaction(p, data, baseId, fails) ==
  /\ CanStart(p)
  /\ Started(p, "create")
  /\ LET doc == createTransaction(data)
         id == nextId
         rejected == \/ ~validateTransactionData(data)
                     \/ ~validateParty(data.partyCode)
                     \/ buildRegistryEntriesThrows(doc)
                     \/ fails
         entries == buildRegistryEntries(doc, id, data.partyCode, baseId)
     IN IF rejected
        THEN /\ proc' = [proc EXCEPT ![p] = Finished([IdleProc EXCEPT !.op = "create"], "error")]
             /\ UNCHANGED <<accounts, txns, registry, nextId>>
        ELSE /\ txns' = (id :> doc) @@ txns
             /\ registry' = registry \cup StoredRows(entries, id + 1)
             /\ accounts' = [accounts EXCEPT ![data.partyCode] =
                               ApplyInc(@, AccountBalanceInc(doc))]
             /\ nextId' = id + 1 + Len(entries)
             /\ proc' = [proc EXCEPT ![p] =
                          [IdleProc EXCEPT !.op = "create", !.pc = "inventory",
                                           !.t = id, !.doc = doc, !.idx = 1]]
  /\ UNCHANGED <<books, transfers, inventory, invLog, sess>>

\* the switch with purchaseReturn left in the branch of the purchases
IsSaleOnly(transactionType) == transactionType = "sale"

IsSale(transactionType) == transactionType \in {"sale", "purchaseReturn"}

\* InventoryService.updateInventory as the controller calls it after the
\* service has returned: one stock item per step, written without a session
createInventoryStep(p, fails) ==
  /\ proc[p].op = "create" /\ proc[p].pc = "inventory"
  /\ LET st == proc[p]
         items == st.doc.stockItems
     IN IF st.idx > Len(items)
        THEN /\ ~fails
             /\ proc' = [proc EXCEPT ![p] = Finished(st, "ok")]
             /\ UNCHANGED <<inventory, invLog, nextId>>
        ELSE LET item == items[st.idx]
                 factor == IF IsSale(st.doc.transactionType) THEN -1 ELSE 1
             IN IF fails \/ inventory[item.stockCode] = NoDoc
                THEN /\ proc' = [proc EXCEPT ![p] = Finished(st, "error")]
                     /\ UNCHANGED <<inventory, invLog, nextId>>
                ELSE /\ inventory' = [inventory EXCEPT ![item.stockCode] =
                                        [pcs |-> @.pcs + factor * item.pieces,
                                         gross |-> @.gross + factor * item.grossWeight]]
                     /\ invLog' = invLog \cup
                          {[lid |-> nextId, voucherCode |-> st.doc.voucherNumber,
                            stockCode |-> item.stockCode,
                            action |-> IF factor < 0 THEN "remove" ELSE "add"]}
                     /\ nextId' = nextId + 1
                     /\ proc' = [proc EXCEPT ![p].idx = @ + 1]
  /\ UNCHANGED <<books, transfers, accounts, txns, registry, sess, pre, hist>>

-----------------------------------------------------------------------------
(* Update *)

validateUpdateInputs(upd) ==
  /\ upd.has # {}
  /\ "stockItems" \in upd.has => Len(upd.stockItems) > 0

\* Object.assign(transaction, updateData): every supplied field is copied
applyTransactionUpdatesRawMerge(doc, upd) ==
  [doc EXCEPT
     !.partyCode = IF "partyCode" \in upd.has THEN upd.partyCode ELSE @,
     !.stockItems = IF "stockItems" \in upd.has THEN upd.stockItems ELSE @,
     !.totalAmountAED = IF "totalAmountSession" \in upd.has THEN upd.totalAmountAED ELSE @,
     !.status = IF "status" \in upd.has THEN upd.status ELSE @]

\* only the allow-listed fields of the payload are copied
applyTransactionUpdates(doc, upd) ==
  [doc EXCEPT
     !.partyCode = IF "partyCode" \in upd.has THEN upd.partyCode ELSE @,
     !.stockItems = IF "stockItems" \in upd.has THEN upd.stockItems ELSE @,
     !.totalAmountAED = IF "totalAmountSession" \in upd.has THEN upd.totalAmountAED ELSE @]

UpdatedDoc(doc, upd) ==
  LET applied == applyTransactionUpdates(doc, upd)
  IN IF "stockItems" \in upd.has \/ "totalAmountSession" \in upd.has
     THEN calculateSessionTotals(applied) ELSE applied

\* transaction.save({session}) on a document that another open database
\* transaction has written: the server answers WriteConflict
WriteConflict(p, t) ==
  \E q \in Procs \ {p} :
    sess[q].state = "active" /\ sess[q].txnPut # NoDoc /\ proc[q].t = t

\* updateMetalTransaction up to the point where handleRegistryAndBalances
\* waits for the posting insert: the transaction is saved, the old postings
\* and inventory logs are deleted, the reversal is started without being
\* awaited, the new entries are built and the new balance delta is issued
\* without being awaited; all of it inside the session
updateMetalTransaction(p, t, upd, baseId, fails) ==
  /\ CanStart(p)
  /\ Started(p, "update")
  /\ LET found == t \in DOMAIN txns /\ txns[t].isActive
         doc == txns[t]
         isPartyChanged == "partyCode" \in upd.has /\ upd.partyCode # doc.partyCode
         newParty == IF isPartyChanged THEN upd.partyCode ELSE doc.partyCode
         newDoc == UpdatedDoc(doc, upd)
         rejected == \/ ~validateUpdateInputs(upd)
                     \/ ~found
                     \/ WriteConflict(p, t)
                     \/ ~validateParty(doc.partyCode)
                     \/ ~validateParty(newParty)
                     \/ buildRegistryEntriesThrows(newDoc)
                     \/ fails
     IN IF rejected
        THEN /\ proc' = [proc EXCEPT ![p] =
                          Finished([IdleProc EXCEPT !.op = "update", !.t = t, !.upd = upd],
                                   "error")]
             /\ sess' = [sess EXCEPT ![p] = [NoSession EXCEPT !.state = "ended"]]
        ELSE /\ proc' = [proc EXCEPT ![p] =
                          [IdleProc EXCEPT !.op = "update", !.pc = "insert", !.t = t,
                             !.upd = upd, !.doc = newDoc, !.orig = doc,
                             !.oldParty = doc.partyCode, !.newParty = newParty,
                             !.reversal = "pending",
                             !.entries = buildRegistryEntries(newDoc, t, newParty, baseId)]]
             /\ sess' = [sess EXCEPT ![p] =
                          [NoSession EXCEPT
                             !.state = "active",
                             !.txnPut = newDoc,
                             !.regDel = {r.rid : r \in RowsOf(registry, t)},
                             !.logDel = {l.lid : l \in {x \in invLog :
                                            x.voucherCode = newDoc.voucherNumber}},
                             !.inc[newParty] = AccountBalanceInc(newDoc)]]
  /\ UNCHANGED <<books, transfers, accounts, txns, registry, inventory, invLog, nextId>>

\* the un-awaited updateTradeDebtorsBalances(oldParty, originalData, reversal):
\* its $inc joins the transaction while that is open, is written directly
\* once the transaction has been committed, and is dropped with the session
reversalWrite(p) ==
  /\ proc[p].reversal = "pending"
  /\ sess[p].state \in {"active", "committed"}
  /\ LET inc == TradeDebtorsInc(proc[p].orig, TRUE)
         party == proc[p].oldParty
     IN IF sess[p].state = "active"
        THEN /\ sess' = [sess EXCEPT ![p].inc[party] = AddInc(@, inc)]
             /\ UNCHANGED accounts
        ELSE /\ accounts' = [accounts EXCEPT ![party] = ApplyInc(@, inc)]
             /\ UNCHANGED sess
  /\ proc' = [proc EXCEPT ![p].reversal = "done"]
  /\ UNCHANGED <<books, transfers, txns, registry, inventory, invLog, nextId, pre, hist>>

\* await Registry.insertMany(newRegistryEntries, {session})
updateInsert(p, fails) ==
  /\ proc[p].op = "update" /\ proc[p].pc = "insert"
  /\ IF fails
     THEN /\ proc' = [proc EXCEPT ![p].pc = "abort"]
          /\ UNCHANGED <<sess, nextId>>
     ELSE /\ sess' = [sess EXCEPT ![p].regAdd = StoredRows(proc[p].entries, nextId)]
          /\ nextId' = nextId + Len(proc[p].entries)
          /\ proc' = [proc EXCEPT ![p].pc = "inventory"]
  /\ UNCHANGED <<books, transfers, accounts, txns, registry, inventory, invLog, pre, hist>>

\* await InventoryService.updateInventory(transaction, isSale, adminId, session)
updateInventoryStep(p, fails) ==
  /\ proc[p].op = "update" /\ proc[p].pc = "inventory"
  /\ LET items == proc[p].doc.stockItems
         n == Len(items)
         factor == IF IsSale(proc[p].doc.transactionType) THEN -1 ELSE 1
         missing == \E i \in 1..n : inventory[items[i].stockCode] = NoDoc
         of(s) == {i \in 1..n : items[i].stockCode = s}
         pcsOf(s) == Sum([i \in 1..n |-> IF i \in of(s) THEN items[i].pieces ELSE 0])
         grossOf(s) == Sum([i \in 1..n |-> IF i \in of(s) THEN items[i].grossWeight ELSE 0])
     IN IF fails \/ missing
        THEN /\ proc' = [proc EXCEPT ![p].pc = "abort"]
             /\ UNCHANGED <<sess, nextId>>
        ELSE /\ sess' = [sess EXCEPT
                          ![p].invInc = [s \in Stocks |->
                             [pcs |-> factor * pcsOf(s), gross |-> factor * grossOf(s)]],
                          ![p].logAdd = {[lid |-> nextId + i - 1,
                                          voucherCode |-> proc[p].doc.voucherNumber,
                                          stockCode |-> items[i].stockCode,
                                          action |-> IF factor < 0 THEN "remove" ELSE "add"]
                                         : i \in 1..n}]
             /\ nextId' = nextId + n
             /\ proc' = [proc EXCEPT ![p].pc = "commit"]
  /\ UNCHANGED <<books, transfers, accounts, txns, registry, inventory, invLog, pre, hist>>

\* await session.commitTransaction(): everything written in the session
\* becomes visible at once
updateCommit(p, fails) ==
  /\ proc[p].op = "update" /\ proc[p].pc = "commit"
  /\ IF fails
     THEN /\ proc' = [proc EXCEPT ![p].pc = "abort"]
          /\ UNCHANGED <<accounts, txns, registry, inventory, invLog, sess>>
     ELSE LET s == sess[p]
          IN /\ accounts' = [a \in Parties |-> ApplyInc(accounts[a], s.inc[a])]
             /\ txns' = [txns EXCEPT ![proc[p].t] = s.txnPut]
             /\ registry' = {r \in registry : r.rid \notin s.regDel} \cup s.regAdd
             /\ invLog' = {l \in invLog : l.lid \notin s.logDel} \cup s.logAdd
             /\ inventory' = [k \in Stocks |->
                   IF inventory[k] = NoDoc THEN NoDoc
                   ELSE [pcs |-> inventory[k].pcs + s.invInc[k].pcs,
                         gross |-> inventory[k].gross + s.invInc[k].gross]]
             /\ sess' = [sess EXCEPT ![p] = [NoSession EXCEPT !.state = "committed"]]
             /\ proc' = [proc EXCEPT ![p].pc = "return"]
  /\ UNCHANGED <<books, transfers, nextId, pre, hist>>

Dropped(st) == IF st.reversal = "pending" THEN [st EXCEPT !.reversal = "lost"] ELSE st

\* the final read, the return and session.endSession()
updateReturn(p) ==
  /\ proc[p].op = "update" /\ proc[p].pc = "return"
  /\ proc' = [proc EXCEPT ![p] = Finished(Dropped(@), "ok")]
  /\ sess' = [sess EXCEPT ![p] = [NoSession EXCEPT !.state = "ended"]]
  /\ UNCHANGED <<books, transfers, accounts, txns, registry, inventory, invLog, nextId, pre, hist>>

\* catch: session.abortTransaction(), rethrow, session.endSession()
updateAbort(p) ==
  /\ proc[p].op = "update" /\ proc[p].pc = "abort"
  /\ proc' = [proc EXCEPT ![p] = Finished(Dropped(@), "error")]
  /\ sess' = [sess EXCEPT ![p] = [NoSession EXCEPT !.state = "ended"]]
  /\ UNCHANGED <<books, transfers, accounts, txns, registry, inventory, invLog, nextId, pre, hist>>

-----------------------------------------------------------------------------
(* Delete *)

\* a deleteMany that matches only the rows posted to the party
deleteRegistryPartyEntries(rows, t) ==
  rows \ {r \in RowsOf(rows, t) : r.party # NoParty}

\* MetalTransactionService.deleteRegistryEntry:
\* Registry.deleteMany({metalTransactionId: metalTransaction._id})
deleteRegistryEntry(rows, t) == rows \ RowsOf(rows, t)

\* deleteMetalTransaction up to the party lookup: the postings are deleted
\* by a query that is not bound to the session
deleteMetalTransaction(p, t, fails) ==
  /\ CanStart(p)
  /\ Started(p, "delete")
  /\ LET found == t \in DOMAIN txns /\ txns[t].isActive
     IN IF ~found \/ fails
        THEN /\ proc' = [proc EXCEPT ![p] =
                          Finished([IdleProc EXCEPT !.op = "delete", !.t = t], "error")]
             /\ UNCHANGED registry
        ELSE /\ registry' = deleteRegistryEntry(registry, t)
             /\ proc' = [proc EXCEPT ![p] =
                          [IdleProc EXCEPT !.op = "delete", !.pc = "party", !.t = t,
                                           !.doc = txns[t]]]
  /\ UNCHANGED <<books, transfers, accounts, txns, inventory, invLog, nextId, sess>>

\* the party lookup, the balance reversal, the row deletion and the commit
deleteFinish(p, fails) ==
  /\ proc[p].op = "delete" /\ proc[p].pc = "party"
  /\ LET doc == proc[p].doc
     IN IF fails
        THEN /\ proc' = [proc EXCEPT ![p] = Finished(@, "error")]
             /\ UNCHANGED <<accounts, txns>>
        ELSE /\ accounts' = [accounts EXCEPT ![doc.partyCode] =
                               ApplyInc(@, TradeDebtorsInc(doc, TRUE))]
             /\ txns' = [k \in DOMAIN txns \ {proc[p].t} |-> txns[k]]
             /\ proc' = [proc EXCEPT ![p] = Finished(@, "ok")]
  /\ UNCHANGED <<books, transfers, registry, inventory, invLog, nextId, sess, pre, hist>>

-----------------------------------------------------------------------------
(* Stock items of a stored transaction *)

\* createCompleteRegistryEntries reads totalOtherCharges, which no scope
\* declares: the read throws a ReferenceError before any row is inserted
createCompleteRegistryEntriesThrows == TRUE

\* MetalTransactionSchema.methods.removeStockItem: filter by item id; items
\* are addressed by their position, an unknown id removes nothing
WithoutItem(items, sid) ==
  [i \in 1..(Len(items) - (IF sid \in 1..Len(items) THEN 1 ELSE 0)) |->
     IF sid \in 1..Len(items) /\ i >= sid THEN items[i + 1] ELSE items[i]]

\* a removal that is never rejected
MinimumStockItemsNotChecked(items) == FALSE

\* the guard of removeStockItem after the item has been filtered out
MinimumStockItemsRequired(items) == Len(items) = 0

\* addStockItem: the item is pushed and the document saved inside the
\* session, then createCompleteRegistryEntries throws and the session aborts
addStockItem(p, t, stockItemData) ==
  /\ CanStart(p)
  /\ Started(p, "addStockItem")
  /\ LET found == t \in DOMAIN txns /\ txns[t].isActive
         doc == [txns[t] EXCEPT !.stockItems = Append(@, stockItemData)]
         saved == calculateSessionTotals(doc)
     IN IF ~found \/ createCompleteRegistryEntriesThrows
        THEN /\ proc' = [proc EXCEPT ![p] =
                          Finished([IdleProc EXCEPT !.op = "addStockItem", !.t = t], "error")]
             /\ UNCHANGED <<accounts, txns>>
        ELSE /\ txns' = [txns EXCEPT ![t] = saved]
             /\ accounts' = [accounts EXCEPT ![saved.partyCode] =
                  ApplyInc(@, TradeDebtorsInc([saved EXCEPT !.stockItems = <<stockItemData>>],
                                              FALSE))]
             /\ proc' = [proc EXCEPT ![p] =
                          Finished([IdleProc EXCEPT !.op = "addStockItem", !.t = t,
                                                    !.doc = saved], "ok")]
  /\ UNCHANGED <<books, transfers, registry, inventory, invLog, nextId, sess>>

\* updateStockItem: Object.assign on the item, save inside the session, then
\* createCompleteRegistryEntries throws and the session aborts
updateStockItem(p, t, sid, updateData) ==
  /\ CanStart(p)
  /\ Started(p, "updateStockItem")
  /\ LET found == t \in DOMAIN txns /\ txns[t].isActive
         hasItem == found /\ sid \in 1..Len(txns[t].stockItems)
         saved == calculateSessionTotals([txns[t] EXCEPT !.stockItems[sid] = updateData])
     IN IF ~hasItem \/ createCompleteRegistryEntriesThrows
        THEN /\ proc' = [proc EXCEPT ![p] =
                          Finished([IdleProc EXCEPT !.op = "updateStockItem", !.t = t],
                                   "error")]
             /\ UNCHANGED txns
        ELSE /\ txns' = [txns EXCEPT ![t] = saved]
             /\ proc' = [proc EXCEPT ![p] =
                          Finished([IdleProc EXCEPT !.op = "updateStockItem", !.t = t,
                                                    !.doc = saved], "ok")]
  /\ UNCHANGED <<books, transfers, accounts, registry, inventory, invLog, nextId, sess>>

\* removeStockItem: filter, reject an empty list, recompute the session
\* totals, save and commit; postings, balances and inventory are not touched
removeStockItem(p, t, sid, fails) ==
  /\ CanStart(p)
  /\ Started(p, "removeStockItem")
  /\ LET found == t \in DOMAIN txns /\ txns[t].isActive
         items == WithoutItem(txns[t].stockItems, sid)
         saved == calculateSessionTotals([txns[t] EXCEPT !.stockItems = items])
     IN IF ~found \/ MinimumStockItemsRequired(items) \/ fails
        THEN /\ proc' = [proc EXCEPT ![p] =
                          Finished([IdleProc EXCEPT !.op = "removeStockItem", !.t = t,
                                                    !.idx = sid], "error")]
             /\ UNCHANGED txns
        ELSE /\ txns' = [txns EXCEPT ![t] = saved]
             /\ proc' = [proc EXCEPT ![p] =
                          Finished([IdleProc EXCEPT !.op = "removeStockItem", !.t = t,
                                                    !.idx = sid, !.doc = saved], "ok")]
  /\ UNCHANGED <<books, transfers, accounts, registry, inventory, invLog, nextId, sess>>

\* updateSessionTotals with the default vatPercentage 0: the supplied
\* totalAmountAED is merged into the stored session totals, saved and
\* committed; postings, balances and inventory are not touched
updateSessionTotals(p, t, totalAmountAED, fails) ==
  /\ CanStart(p)
  /\ Started(p, "updateSessionTotals")
  /\ LET found == t \in DOMAIN txns /\ txns[t].isActive
     IN IF ~found \/ fails
        THEN /\ proc' = [proc EXCEPT ![p] =
                          Finished([IdleProc EXCEPT !.op = "updateSessionTotals", !.t = t],
                                   "error")]
             /\ UNCHANGED txns
        ELSE /\ txns' = [txns EXCEPT ![t].totalAmountAED = totalAmountAED]
             /\ proc' = [proc EXCEPT ![p] =
                          Finished([IdleProc EXCEPT !.op = "updateSessionTotals", !.t = t,
                                      !.doc = [txns[t] EXCEPT !.totalAmountAED = totalAmountAED]],
                                   "ok")]
  /\ UNCHANGED <<books, transfers, accounts, registry, inventory, invLog, nextId, sess>>

-----------------------------------------------------------------------------
(* Transaction Fixing *)

\* quantity in thousandths of a gram, price in whole units per gram
FixingOrder(quantityGm, price) == [quantityGm |-> quantityGm, price |-> price]

\* the running totals of the orders: a PURCHASE takes the grams from the
\* party and adds the cash, a SELL does the opposite
FixingChange(type, orders) ==
  LET grams == Sum([i \in 1..Len(orders) |-> orders[i].quantityGm])
      cash == Sum([i \in 1..Len(orders) |-> orders[i].price * orders[i].quantityGm])
  IN IF type = "PURCHASE" THEN Inc(-grams, 0, cash) ELSE Inc(grams, 0, -cash)

\* account.balances.* = current + change; totalValue is set to 0
FixingApply(acc, change) ==
  [acc EXCEPT !.grams = @ + change.grams, !.value = 0, !.cash = @ + change.cash]

FixingRow(baseId, id, suffix, type, party, value, debit, credit) ==
  [base |-> baseId, suffix |-> suffix, owner |-> <<"fixing", id>>, type |-> type,
   party |-> party, value |-> value, credit |-> credit, debit |-> debit,
   reference |-> "FX"]

\* the three Registry rows of every order
FixingEntries(baseId, id, type, orders, party) ==
  Flatten([i \in 1..Len(orders) |->
    LET q == orders[i].quantityGm
        totalValue == orders[i].price * orders[i].quantityGm
        n == ToString(i)
    IN IF type = "PURCHASE"
       THEN << FixingRow(baseId, id, "PARTY-GOLD-" \o n, "PARTY_GOLD_BALANCE", party, q, q, 0),
               FixingRow(baseId, id, "PARTY-GOLD-FIX-" \o n, "purchase-fixing", party, q, 0, q),
               FixingRow(baseId, id, "PARTY-CASH-" \o n, "PARTY_CASH_BALANCE", party,
                         totalValue, 0, totalValue) >>
       ELSE << FixingRow(baseId, id, "PARTY-GOLD-" \o n, "PARTY_GOLD_BALANCE", party, q, 0, q),
               FixingRow(baseId, id, "PARTY-GOLD-FIX-" \o n, "sales-fixing", party, 0, q, 0),
               FixingRow(baseId, id, "PARTY-CASH-" \o n, "PARTY_CASH_BALANCE", party,
                         totalValue, totalValue, 0) >>])

validFixingOrders(orders) ==
  /\ Len(orders) > 0
  /\ \A i \in 1..Len(orders) : orders[i].quantityGm > 0 /\ orders[i].price > 0

FixingRowsOf(rows, id) == {r \in rows : r.owner = <<"fixing", id>>}

\* TransactionFixingService.createTransaction: validation, the document, the
\* rows of every order and the account, in one database transaction
fixingCreateTransaction(p, transactionData, baseId, fails) ==
  /\ CanStart(p)
  /\ Started(p, "fixingCreate")
  /\ LET id == nextId
         party == transactionData.partyId
         entries == FixingEntries(baseId, id, transactionData.type, transactionData.orders, party)
         rejected == \/ transactionData.type \notin {"PURCHASE", "SELL"}
                     \/ ~validFixingOrders(transactionData.orders)
                     \/ party \notin Parties
                     \/ fails
     IN IF rejected
        THEN /\ proc' = [proc EXCEPT ![p] =
                          Finished([IdleProc EXCEPT !.op = "fixingCreate"], "error")]
             /\ UNCHANGED <<books, registry, accounts, nextId>>
        ELSE /\ books' = [books EXCEPT !.fixing = (id :> transactionData) @@ @]
             /\ registry' = registry \cup StoredRows(entries, id + 1)
             /\ accounts' = [accounts EXCEPT ![party] =
                  FixingApply(@, FixingChange(transactionData.type, transactionData.orders))]
             /\ nextId' = id + 1 + Len(entries)
             /\ proc' = [proc EXCEPT ![p] =
                          Finished([IdleProc EXCEPT !.op = "fixingCreate", !.t = id,
                                                    !.doc = transactionData], "ok")]
  /\ UNCHANGED <<transfers, txns, inventory, invLog, sess>>

\* TransactionFixingService.updateTransaction: the account that is loaded is
\* the one of updateData.partyId when that is supplied; when orders or type
\* are supplied the reversal of the original orders and the effect of the new
\* ones are both added to that account and the rows are rebuilt; the supplied
\* fields are then written to the document
fixingUpdateTransaction(p, id, updateData, baseId, fails) ==
  /\ CanStart(p)
  /\ Started(p, "fixingUpdate")
  /\ LET found == id \in DOMAIN books.fixing
         transaction == books.fixing[id]
         has == updateData.has
         party == IF "partyId" \in has THEN updateData.partyId ELSE transaction.partyId
         newType == IF "type" \in has THEN updateData.type ELSE transaction.type
         newOrders == IF "orders" \in has THEN updateData.orders ELSE transaction.orders
         rebuild == "orders" \in has \/ "type" \in has
         reversal == FixingChange(IF transaction.type = "PURCHASE" THEN "SELL" ELSE "PURCHASE",
                                  transaction.orders)
         change == AddInc(reversal, FixingChange(newType, newOrders))
         entries == FixingEntries(baseId, id, newType, newOrders, party)
         updated == [partyId |-> party, type |-> newType, orders |-> newOrders]
         rejected == \/ ~found
                     \/ "type" \in has /\ updateData.type \notin {"PURCHASE", "SELL"}
                     \/ "orders" \in has /\ ~validFixingOrders(updateData.orders)
                     \/ party \notin Parties
                     \/ fails
     IN IF rejected
        THEN /\ proc' = [proc EXCEPT ![p] =
                          Finished([IdleProc EXCEPT !.op = "fixingUpdate", !.t = id,
                                                    !.upd = updateData], "error")]
             /\ UNCHANGED <<books, registry, accounts, nextId>>
        ELSE /\ books' = [books EXCEPT !.fixing[id] = updated]
             /\ IF rebuild
                THEN /\ registry' = (registry \ FixingRowsOf(registry, id))
                                      \cup StoredRows(entries, nextId)
                     /\ accounts' = [accounts EXCEPT ![party] = FixingApply(@, change)]
                     /\ nextId' = nextId + Len(entries)
                ELSE UNCHANGED <<registry, accounts, nextId>>
             /\ proc' = [proc EXCEPT ![p] =
                          Finished([IdleProc EXCEPT !.op = "fixingUpdate", !.t = id,
                                      !.upd = updateData, !.orig = transaction,
                                      !.doc = updated], "ok")]
  /\ UNCHANGED <<transfers, txns, inventory, invLog, sess>>

\* TransactionFixingService.deleteTransaction: the effect of the orders is
\* taken back from the party's account, the rows and the document are
\* deleted, in one database transaction
fixingDeleteTransaction(p, id, fails) ==
  /\ CanStart(p)
  /\ Started(p, "fixingDelete")
  /\ LET found == id \in DOMAIN books.fixing
         transaction == books.fixing[id]
         reversal == FixingChange(IF transaction.type = "PURCHASE" THEN "SELL" ELSE "PURCHASE",
                                  transaction.orders)
     IN IF ~found \/ fails
        THEN /\ proc' = [proc EXCEPT ![p] =
                          Finished([IdleProc EXCEPT !.op = "fixingDelete", !.t = id], "error")]
             /\ UNCHANGED <<books, registry, accounts>>
        ELSE /\ accounts' = [accounts EXCEPT ![transaction.partyId] = FixingApply(@, reversal)]
             /\ registry' = registry \ FixingRowsOf(registry, id)
             /\ books' = [books EXCEPT
                            !.fixing = [k \in DOMAIN books.fixing \ {id} |-> books.fixing[k]]]
             /\ proc' = [proc EXCEPT ![p] =
                          Finished([IdleProc EXCEPT !.op = "fixingDelete", !.t = id,
                                                    !.doc = transaction], "ok")]
  /\ UNCHANGED <<transfers, txns, inventory, invLog, nextId, sess>>

\* TransactionFixingService.permanentDeleteTransaction: findByIdAndDelete
permanentDeleteTransaction(p, id, fails) ==
  /\ CanStart(p)
  /\ Started(p, "fixingPermanentDelete")
  /\ LET found == id \in DOMAIN books.fixing
     IN IF ~found \/ fails
        THEN /\ proc' = [proc EXCEPT ![p] =
                          Finished([IdleProc EXCEPT !.op = "fixingPermanentDelete", !.t = id],
                                   "error")]
             /\ UNCHANGED books
        ELSE /\ books' = [books EXCEPT
                            !.fixing = [k \in DOMAIN books.fixing \ {id} |-> books.fixing[k]]]
             /\ proc' = [proc EXCEPT ![p] =
                          Finished([IdleProc EXCEPT !.op = "fixingPermanentDelete", !.t = id,
                                                    !.doc = books.fixing[id]], "ok")]
  /\ UNCHANGED <<transfers, accounts, txns, registry, inventory, invLog, nextId, sess>>

-----------------------------------------------------------------------------
(* Registry maintenance *)

\* RegistryService.updateRegistry: findOneAndUpdate with the request body
updateRegistry(p, rid, updateData) ==
  /\ CanStart(p)
  /\ Started(p, "updateRegistry")
  /\ \E r \in registry :
       /\ r.rid = rid
       /\ registry' = (registry \ {r}) \cup
            {[r EXCEPT !.value = updateData.value, !.debit = updateData.debit,
                       !.credit = updateData.credit]}
  /\ proc' = [proc EXCEPT ![p] = Finished([IdleProc EXCEPT !.op = "updateRegistry"], "ok")]
  /\ UNCHANGED <<books, transfers, accounts, txns, inventory, invLog, nextId, sess>>

-----------------------------------------------------------------------------
(* Fund transfer *)

\* FundTransferService.accountToAccountTransfer: both accounts are loaded,
\* handleCashTransfer / handleGoldTransfer change the loaded copies
accountToAccountTransfer(p, senderId, receiverId, value, assetType) ==
  /\ CanStart(p)
  /\ Started(p, "transfer")
  /\ LET transferAmount == Abs(value)
         field == IF assetType = "CASH" THEN "cash" ELSE "grams"
     IN IF value = 0
        THEN proc' = [proc EXCEPT ![p] =
                        Finished([IdleProc EXCEPT !.op = "transfer"], "error")]
        ELSE proc' = [proc EXCEPT ![p] =
                        [IdleProc EXCEPT !.op = "transfer", !.pc = "saveReceiver",
                           !.local = [sender |-> senderId, receiver |-> receiverId,
                                      value |-> value, assetType |-> assetType,
                                      field |-> field,
                                      senderPrevious |-> accounts[senderId][field],
                                      receiverPrevious |-> accounts[receiverId][field],
                                      senderAmount |-> accounts[senderId][field] - transferAmount,
                                      receiverAmount |-> accounts[receiverId][field] + transferAmount]]]
  /\ UNCHANGED <<books, accounts, txns, registry, inventory, invLog, transfers, nextId, sess>>

\* await receiverAccount.save(): the changed balance field is written as loaded
transferSaveReceiver(p, fails) ==
  /\ proc[p].op = "transfer" /\ proc[p].pc = "saveReceiver"
  /\ LET l == proc[p].local
     IN IF fails
        THEN /\ proc' = [proc EXCEPT ![p] = Finished(@, "error")]
             /\ UNCHANGED accounts
        ELSE /\ accounts' = [accounts EXCEPT ![l.receiver][l.field] = l.receiverAmount]
             /\ proc' = [proc EXCEPT ![p].pc = "saveSender"]
  /\ UNCHANGED <<books, txns, registry, inventory, invLog, transfers, nextId, sess, pre, hist>>

\* await senderAccount.save()
transferSaveSender(p, fails) ==
  /\ proc[p].op = "transfer" /\ proc[p].pc = "saveSender"
  /\ LET l == proc[p].local
     IN IF fails
        THEN /\ proc' = [proc EXCEPT ![p] = Finished(@, "error")]
             /\ UNCHANGED accounts
        ELSE /\ accounts' = [accounts EXCEPT ![l.sender][l.field] = l.senderAmount]
             /\ proc' = [proc EXCEPT ![p].pc = "saveRecords"]
  /\ UNCHANGED <<books, txns, registry, inventory, invLog, transfers, nextId, sess, pre, hist>>

TransferRow(rid, fid, type, party, value, debit, credit) ==
  [rid |-> rid, base |-> rid, suffix |-> "", owner |-> <<"transfer", fid>>,
   type |-> type, party |-> party, value |-> value, credit |-> credit,
   debit |-> debit, reference |-> "FT"]

\* await fundTransfer.save(); transaction.save(); receiverTransaction.save()
transferSaveRecords(p, fails) ==
  /\ proc[p].op = "transfer" /\ proc[p].pc = "saveRecords"
  /\ LET l == proc[p].local
         transferAmount == Abs(l.value)
         isNegativeTransfer == l.value < 0
         fid == nextId
         type == IF l.assetType = "CASH" THEN "PARTY_CASH_BALANCE" ELSE "PARTY_GOLD_BALANCE"
     IN IF fails
        THEN /\ proc' = [proc EXCEPT ![p] = Finished(@, "error")]
             /\ UNCHANGED <<registry, transfers, nextId>>
        ELSE /\ transfers' = transfers \cup
                  {[fid |-> fid, value |-> l.value, assetType |-> l.assetType,
                    type |-> "TRANSFER",
                    receivingParty |-> IF isNegativeTransfer THEN l.sender ELSE l.receiver,
                    sendingParty |-> IF isNegativeTransfer THEN l.receiver ELSE l.sender]}
             /\ registry' = registry \cup
                  {TransferRow(fid + 1, fid, type, l.sender, transferAmount, transferAmount, 0),
                   TransferRow(fid + 2, fid, type, l.receiver, transferAmount, 0, transferAmount)}
             /\ nextId' = nextId + 3
             /\ proc' = [proc EXCEPT ![p] = Finished(@, "ok")]
  /\ UNCHANGED <<books, accounts, txns, inventory, invLog, sess, pre, hist>>

-----------------------------------------------------------------------------
(* Opening balance *)

OpeningType(assetType) ==
  IF assetType = "CASH" THEN "OPENING_CASH_BALANCE" ELSE "OPENING_GOLD_BALANCE"

\* FundTransferService.openingBalanceTransfer up to its first write: the
\* account and an existing opening row of the party are loaded
openingBalanceTransfer(p, receiverId, value, assetType, isConfirmed) ==
  /\ CanStart(p)
  /\ Started(p, "opening")
  /\ LET existing == {r \in registry : r.party = receiverId /\ r.type = OpeningType(assetType)}
         field == IF assetType = "CASH" THEN "cash" ELSE "grams"
         existingOpening == CHOOSE r \in existing : \A q \in existing : r.rid <= q.rid
         revertValue == OrElse(existingOpening.credit, -existingOpening.debit)
     IN IF existing # {} /\ ~isConfirmed
        THEN proc' = [proc EXCEPT ![p] =
                        Finished([IdleProc EXCEPT !.op = "opening"], "error")]
        ELSE proc' = [proc EXCEPT ![p] =
                        [IdleProc EXCEPT !.op = "opening", !.pc = "write",
                           !.local = [receiver |-> receiverId, value |-> value,
                                      assetType |-> assetType, field |-> field,
                                      replace |-> existing # {},
                                      previous |-> accounts[receiverId][field],
                                      amount |-> IF existing # {}
                                                 THEN accounts[receiverId][field] - revertValue + value
                                                 ELSE accounts[receiverId][field] + value]]]
  /\ UNCHANGED <<books, accounts, txns, registry, inventory, invLog, transfers, nextId, sess>>

\* the first write of openingBalanceTransfer: for an existing opening balance
\* Registry.updateMany({party}) and FundTransfer.updateMany, for a new one
\* receiverAccount.save()
openingWrite(p) ==
  /\ proc[p].op = "opening" /\ proc[p].pc = "write"
  /\ LET l == proc[p].local
         absoluteValue == Abs(l.value)
         credit == IF l.value > 0 THEN absoluteValue ELSE 0
         debit == IF l.value < 0 THEN absoluteValue ELSE 0
     IN IF l.replace
        THEN /\ registry' = {IF r.party = l.receiver
                             THEN [r EXCEPT !.value = absoluteValue, !.credit = credit,
                                            !.debit = debit]
                             ELSE r : r \in registry}
             /\ transfers' = {IF f.receivingParty = l.receiver
                              THEN [f EXCEPT !.value = absoluteValue,
                                             !.sendingParty = NoParty]
                              ELSE f : f \in transfers}
             /\ proc' = [proc EXCEPT ![p].pc = "saveAccount"]
             /\ UNCHANGED accounts
        ELSE /\ accounts' = [accounts EXCEPT ![l.receiver][l.field] = l.amount]
             /\ proc' = [proc EXCEPT ![p].pc = "saveRecords"]
             /\ UNCHANGED <<registry, transfers>>
  /\ UNCHANGED <<books, txns, inventory, invLog, nextId, sess, pre, hist>>

\* await receiverAccount.save() that ends the change of an existing opening
\* balance: the amount computed from the account as it was loaded is stored
openingSaveAccount(p) ==
  /\ proc[p].op = "opening" /\ proc[p].pc = "saveAccount"
  /\ LET l == proc[p].local
     IN accounts' = [accounts EXCEPT ![l.receiver][l.field] = l.amount]
  /\ proc' = [proc EXCEPT ![p] = Finished(@, "ok")]
  /\ UNCHANGED <<books, txns, registry, inventory, invLog, transfers, nextId, sess, pre, hist>>

\* await fundTransfer.save(); transactionForParty.save(); transaction.save()
\* of a new opening balance
openingSaveRecords(p) ==
  /\ proc[p].op = "opening" /\ proc[p].pc = "saveRecords"
  /\ LET l == proc[p].local
         absoluteValue == Abs(l.value)
         credit == IF l.value > 0 THEN absoluteValue ELSE 0
         debit == IF l.value < 0 THEN absoluteValue ELSE 0
         fid == nextId
         partyType == IF l.assetType = "CASH" THEN "PARTY_CASH_BALANCE"
                      ELSE "PARTY_GOLD_BALANCE"
     IN /\ transfers' = transfers \cup
             {[fid |-> fid, value |-> absoluteValue, assetType |-> l.assetType,
               type |-> "OPENING-BALANCE", receivingParty |-> l.receiver,
               sendingParty |-> NoParty]}
        /\ registry' = registry \cup
             {[TransferRow(fid + 1, fid, OpeningType(l.assetType), l.receiver,
                           absoluteValue, debit, credit) EXCEPT !.reference = "OB"],
              [TransferRow(fid + 2, fid, partyType, l.receiver,
                           absoluteValue, debit, credit) EXCEPT !.reference = "OB"]}
        /\ nextId' = nextId + 3
  /\ proc' = [proc EXCEPT ![p] = Finished(@, "ok")]
  /\ UNCHANGED <<books, accounts, txns, inventory, invLog, sess, pre, hist>>

-----------------------------------------------------------------------------
(* Receipt and payment entries *)

EntryTypes == {"metal-receipt", "metal-payment", "cash receipt", "cash payment",
               "currency-receipt"}

CashTypes == {"cash receipt", "cash payment"}

\* AccountMaster documents; M0 is an id that no document has
Masters == {"M1", "M0"}

\* the four writes that handleCashReceipt / handleCashPayment start together
EntryWrites == {"cashAccount", "account", "accountLog", "registry"}

CashItem(cashType, amount) == [cashType |-> cashType, amount |-> amount]

EntryRow(rid, type, party, value, debit, credit, reference) ==
  [rid |-> rid, base |-> rid, suffix |-> "", owner |-> <<"entry", 0>>,
   type |-> type, party |-> party, value |-> value, credit |-> credit,
   debit |-> debit, reference |-> reference]

\* the validation at the head of createEntry and editEntry
validEntryRequest(type, cash) ==
  /\ type \in EntryTypes
  /\ type \in CashTypes => Len(cash) > 0

\* the per-item checks of handleCashReceipt / handleCashPayment
validCashItem(cashItem) ==
  /\ cashItem.amount # 0
  /\ books.master[cashItem.cashType] # NoDoc
  /\ cashItem.amount > 0

\* createEntry up to the first cash item: the request is validated, the
\* Entry is built in memory and the handler loads the party account
createEntry(p, type, party, cash, voucherCode) ==
  /\ CanStart(p)
  /\ Started(p, "createEntry")
  /\ IF ~validEntryRequest(type, cash) \/ party \notin Parties
     THEN proc' = [proc EXCEPT ![p] =
                     Finished([IdleProc EXCEPT !.op = "createEntry"], "error")]
     ELSE proc' = [proc EXCEPT ![p] =
                     [IdleProc EXCEPT !.op = "createEntry", !.pc = "cashItem", !.idx = 1,
                        !.local = [entry |-> [eid |-> 0, voucherCode |-> voucherCode,
                                              type |-> type, party |-> party, cash |-> cash],
                                   amount |-> accounts[party].cash]]]
  /\ UNCHANGED <<books, accounts, txns, registry, inventory, invLog, transfers, nextId, sess>>

\* one iteration of the loop of handleCashReceipt / handleCashPayment: the
\* loaded account and the cash account are changed in memory, then
\* Promise.all starts cashAccount.save(), account.save(), AccountLog.create
\* and Registry.create without a session; each of them can fail on its own
entryCashItem(p, failed) ==
  /\ proc[p].op \in {"createEntry", "editEntry"} /\ proc[p].pc = "cashItem"
  /\ proc[p].idx <= Len(proc[p].local.entry.cash)
  /\ LET st == proc[p]
         entry == st.local.entry
         cashItem == entry.cash[st.idx]
         sign == IF entry.type = "cash receipt" THEN 1 ELSE -1
         balanceAfter == st.local.amount + sign * cashItem.amount
         openingBalance == books.master[cashItem.cashType].openingBalance + sign * cashItem.amount
         partyDebit == IF sign < 0 THEN cashItem.amount ELSE 0
         partyCredit == IF sign > 0 THEN cashItem.amount ELSE 0
     IN IF ~validCashItem(cashItem)
        THEN /\ proc' = [proc EXCEPT ![p] = Finished(st, "error")]
             /\ UNCHANGED <<accounts, books, registry, nextId>>
        ELSE /\ accounts' = IF "account" \in failed THEN accounts
                            ELSE [accounts EXCEPT ![entry.party].cash = balanceAfter]
             /\ books' = [books EXCEPT
                            !.master[cashItem.cashType].openingBalance =
                               IF "cashAccount" \in failed THEN @ ELSE openingBalance,
                            !.log = IF "accountLog" \in failed THEN @
                                    ELSE @ \cup {[lid |-> nextId, accountId |-> cashItem.cashType,
                                                  amount |-> cashItem.amount,
                                                  reference |-> entry.voucherCode,
                                                  balanceAfter |-> openingBalance]}]
             /\ registry' = IF "registry" \in failed THEN registry
                            ELSE registry \cup
                              {EntryRow(nextId + 1, "PARTY_CASH_BALANCE", entry.party,
                                        cashItem.amount, partyDebit, partyCredit,
                                        entry.voucherCode),
                               EntryRow(nextId + 2, "CASH", NoParty, cashItem.amount,
                                        partyCredit, partyDebit, entry.voucherCode)}
             /\ nextId' = nextId + 3
             /\ proc' = [proc EXCEPT ![p] =
                          IF failed # {} THEN Finished(st, "error")
                          ELSE [st EXCEPT !.idx = @ + 1, !.local.amount = balanceAfter]]
  /\ UNCHANGED <<txns, inventory, invLog, transfers, sess, pre, hist>>

\* await entry.save() after the handler has returned
entrySave(p, fails) ==
  /\ proc[p].op \in {"createEntry", "editEntry"} /\ proc[p].pc = "cashItem"
  /\ proc[p].idx > Len(proc[p].local.entry.cash)
  /\ LET entry == proc[p].local.entry
         saved == IF entry.eid = 0 THEN [entry EXCEPT !.eid = nextId] ELSE entry
     IN IF fails
        THEN /\ proc' = [proc EXCEPT ![p] = Finished(@, "error")]
             /\ UNCHANGED <<books, nextId>>
        ELSE /\ books' = [books EXCEPT !.entries =
                            {e \in @ : e.eid # saved.eid} \cup {saved}]
             /\ nextId' = nextId + 1
             /\ proc' = [proc EXCEPT ![p] = Finished(@, "ok")]
  /\ UNCHANGED <<accounts, txns, registry, inventory, invLog, transfers, sess, pre, hist>>

\* editEntry up to the balance reversal: after the request validation the
\* Registry rows whose reference is the voucher code are deleted, and only
\* then is the entry looked up
editEntry(p, type, party, cash, voucherCode) ==
  /\ CanStart(p)
  /\ Started(p, "editEntry")
  /\ LET found == {e \in books.entries : e.voucherCode = voucherCode}
         oldentry == CHOOSE e \in found : TRUE
     IN IF ~validEntryRequest(type, cash)
        THEN /\ proc' = [proc EXCEPT ![p] =
                          Finished([IdleProc EXCEPT !.op = "editEntry"], "error")]
             /\ UNCHANGED registry
        ELSE /\ registry' = {r \in registry : r.reference # voucherCode}
             /\ IF found = {}
                THEN proc' = [proc EXCEPT ![p] =
                                Finished([IdleProc EXCEPT !.op = "editEntry"], "error")]
                ELSE proc' = [proc EXCEPT ![p] =
                                [IdleProc EXCEPT !.op = "editEntry", !.pc = "reverse",
                                   !.local = [entry |-> [oldentry EXCEPT !.type = type,
                                                           !.party = party, !.cash = cash],
                                              oldentry |-> oldentry, amount |-> 0]]]
  /\ UNCHANGED <<books, accounts, txns, inventory, invLog, transfers, nextId, sess>>

\* reverseAccountBalances for one balance: towards zero when it is negative
ReverseAmount(previousBalance, amount) ==
  IF previousBalance < 0 THEN previousBalance + amount ELSE previousBalance - amount

RECURSIVE ReverseAll(_, _, _)
\* the balance after the cash items from position i on have been reversed
ReverseAll(balance, cash, i) ==
  IF i > Len(cash) THEN balance
  ELSE ReverseAll(ReverseAmount(balance, cash[i].amount), cash, i + 1)

RECURSIVE ReverseMasters(_, _, _)
\* the cash accounts after cashAccount.save() of every reversed item
ReverseMasters(master, cash, i) ==
  IF i > Len(cash) THEN master
  ELSE ReverseMasters([master EXCEPT ![cash[i].cashType].openingBalance =
                                         ReverseAmount(@, cash[i].amount)],
                      cash, i + 1)

\* the cash branch of editEntry: AccountLog.deleteMany by reference, then
\* reverseAccountBalances on the account of the party of the request, with
\* the cash items of the stored entry; then the handler loads the account
editReverse(p, fails) ==
  /\ proc[p].op = "editEntry" /\ proc[p].pc = "reverse"
  /\ LET st == proc[p]
         entry == st.local.entry
         old == st.local.oldentry
         logs == {l \in books.log : l.reference # entry.voucherCode}
         rejected == \/ entry.party \notin Parties
                     \/ \E i \in 1..Len(old.cash) : ~validCashItem(old.cash[i])
         balanceAfter == ReverseAll(accounts[entry.party].cash, old.cash, 1)
     IN IF rejected \/ fails = "reverse"
        THEN /\ books' = [books EXCEPT !.log = logs]
             /\ proc' = [proc EXCEPT ![p] = Finished(st, "error")]
             /\ UNCHANGED accounts
        ELSE /\ books' = [books EXCEPT !.log = logs,
                                       !.master = ReverseMasters(@, old.cash, 1)]
             /\ IF fails = "account"
                THEN /\ proc' = [proc EXCEPT ![p] = Finished(st, "error")]
                     /\ UNCHANGED accounts
                ELSE /\ accounts' = [accounts EXCEPT ![entry.party].cash = balanceAfter]
                     /\ proc' = [proc EXCEPT ![p] =
                                  [st EXCEPT !.pc = "cashItem", !.idx = 1,
                                             !.local.amount = balanceAfter]]
  /\ UNCHANGED <<txns, registry, inventory, invLog, transfers, nextId, sess, pre, hist>>

-----------------------------------------------------------------------------
(* Trade debtors *)

\* AccountTypeService.deleteTradeDebtor: the soft delete marks the account
\* inactive with one findByIdAndUpdate; an unknown id is DEBTOR_NOT_FOUND
deleteTradeDebtor(p, id) ==
  /\ proc[p].pc \in {"idle", "done"}
  /\ id \in Parties
  /\ accounts[id].isActive
  /\ accounts' = [accounts EXCEPT ![id].isActive = FALSE]
  /\ UNCHANGED <<books, txns, registry, inventory, invLog, transfers, nextId, proc, sess, pre, hist>>

-----------------------------------------------------------------------------
(* Requests *)

CreatePayloads ==
  { Payload("purchase", FALSE, TRUE, "A", <<ItemBar>>, 0, "V1"),
    Payload("sale", TRUE, FALSE, "A", <<ItemBar>>, 5000000, "V1"),
    Payload("purchase", FALSE, TRUE, "A", <<ItemValueOnly>>, 0, "V1"),
    Payload("purchaseReturn", FALSE, TRUE, "B", <<ItemPremium>>, 0, "V1"),
    Payload("saleReturn", TRUE, FALSE, "B", <<ItemBar, ItemDiscount>>, 5000000, "V1"),
    Payload("purchase", FALSE, TRUE, "A", <<>>, 0, "V1"),
    Payload("sale", FALSE, TRUE, "Z", <<ItemBar>>, 0, "V1") }

\* every kind in both modes, with a total of three decimals and with a total
\* left to be computed from the items
BalancePayloads ==
  { Payload(k, fx, ~fx, "A", it[1], it[2], "V1") :
      k \in Kinds, fx \in BOOLEAN,
      it \in {<<<<ItemValueOnly>>, 101234>>, <<<<ItemBar, ItemRebate>>, 0>>} }

\* every kind with every combination of the two mode flags
ModePayloads ==
  { Payload(k, fx, ufx, "A", <<ItemBar>>, 5000000, "V1") :
      k \in Kinds, fx \in BOOLEAN, ufx \in BOOLEAN }

\* every kind in both modes for a transaction without weight and for one of
\* two stock items, one of them with other charges and VAT
PostingPayloads ==
  { Payload(k, fx, ~fx, "A", it[1], it[2], "V1") :
      k \in Kinds, fx \in BOOLEAN,
      it \in {<<<<ItemValueOnly>>, 101234>>, <<<<ItemRebate, ItemCharged>>, 0>>} }

\* every kind, unfix, with two stock items of the same stock
InventoryPayloads ==
  { Payload(k, FALSE, TRUE, "A", <<ItemBar, ItemRebate>>, 0, "V1") : k \in Kinds }

\* every kind in both modes with one stock item of each mix of components:
\* making charges only, a premium, a discount, other charges and VAT, a gold
\* value without weight
BuildPayloads ==
  { Payload(k, fx, ~fx, "A", <<it>>, 0, "V1") :
      k \in Kinds, fx \in BOOLEAN,
      it \in {ItemBar, ItemPremium, ItemRebate, ItemCharged, ItemValueOnly} }

Update(has, party, items, total, status) ==
  [has |-> has, partyCode |-> party, stockItems |-> items, totalAmountAED |-> total,
   status |-> status]

\* the stored document sent back unchanged
SamePayload(doc) ==
  Update({"partyCode", "stockItems", "totalAmountSession"}, doc.partyCode,
         doc.stockItems, doc.totalAmountAED, doc.status)

PartyPayload(doc, party) ==
  Update({"partyCode"}, party, doc.stockItems, doc.totalAmountAED, doc.status)

StatusPayload(doc, status) ==
  Update({"status"}, doc.partyCode, doc.stockItems, doc.totalAmountAED, status)

ItemsPayload(doc, items) ==
  Update({"stockItems"}, doc.partyCode, items, doc.totalAmountAED, doc.status)

EmptyPayload(doc) ==
  Update({}, doc.partyCode, doc.stockItems, doc.totalAmountAED, doc.status)

UpdatePayloads(doc) ==
  {SamePayload(doc), StatusPayload(doc, "cancelled"), EmptyPayload(doc),
   ItemsPayload(doc, <<ItemPremium>>), ItemsPayload(doc, <<>>)}
  \cup {PartyPayload(doc, a) : a \in Parties \ {doc.partyCode}}

RegistryEdits == {[value |-> 7000, debit |-> 7000, credit |-> 0]}

\* <<sender, receiver, value, asset type>>
TransferRequests ==
  { <<"A", "B", 2000000, "CASH">>, <<"B", "A", -1000000, "GOLD">>, <<"A", "B", 0, "CASH">> }

\* <<receiver, value, asset type, voucher.isConfirmed>>
OpeningRequests ==
  { <<"A", 3000000, "CASH", FALSE>>, <<"A", -500000, "CASH", TRUE>>,
    <<"B", 1000000, "GOLD", TRUE>> }

\* <<type, party, cash items, voucher code>>; X is an id without account
EntryRequests ==
  { <<"cash receipt", "A", <<CashItem("M1", 500000)>>, "E1">>,
    <<"cash payment", "A", <<CashItem("M1", 1500000)>>, "E1">>,
    <<"cash payment", "A", <<CashItem("M1", 500000)>>, "E1">>,
    <<"cash receipt", "B", <<CashItem("M1", 500000), CashItem("M1", -1000)>>, "E1">>,
    <<"cash receipt", "A", <<CashItem("M0", 500000)>>, "E2">>,
    <<"cash receipt", "X", <<CashItem("M1", 500000)>>, "E2">>,
    <<"cash receipt", "A", <<>>, "E1">>,
    <<"receipt", "A", <<CashItem("M1", 500000)>>, "E1">> }

InitBooks ==
  [entries |-> {}, log |-> {}, fixing |-> <<>>,
   master |-> [m \in Masters |-> IF m = "M1" THEN [openingBalance |-> 0] ELSE NoDoc]]

\* a transaction id that is not in the collection
MissingId == 0

-----------------------------------------------------------------------------
(* Specification: one request at a time *)

InitAccounts ==
  [a \in Parties |-> [isActive |-> a # "Z", grams |-> 0, value |-> 0,
                      cash |-> IF a = "A" THEN 1000000 ELSE 0]]

InitInventory ==
  [s \in Stocks |-> IF s = "S1" THEN [pcs |-> 10, gross |-> 500000] ELSE NoDoc]

Init ==
  /\ accounts = InitAccounts
  /\ txns = <<>>
  /\ registry = {}
  /\ inventory = InitInventory
  /\ invLog = {}
  /\ transfers = {}
  /\ books = InitBooks
  /\ nextId = 1
  /\ proc = [p \in Procs |-> IdleProc]
  /\ sess = [p \in Procs |-> NoSession]
  /\ pre = [p \in Procs |-> NoDoc]
  /\ hist = <<>>

Create(p) ==
  \E data \in CreatePayloads, b \in BaseIds, f \in BOOLEAN :
    createMetalTransaction(p, data, b, f)

CreateInventory(p) == \E f \in BOOLEAN : createInventoryStep(p, f)

UpdateStart(p) ==
  \E t \in DOMAIN txns, b \in BaseIds, f \in BOOLEAN :
    \E upd \in UpdatePayloads(txns[t]) : updateMetalTransaction(p, t, upd, b, f)

UpdateMissing(p) ==
  \E b \in BaseIds :
    updateMetalTransaction(p, MissingId, Update({"status"}, "A", <<>>, 0, "cancelled"), b, FALSE)

UpdateInsert(p) == \E f \in BOOLEAN : updateInsert(p, f)

UpdateInventory(p) == \E f \in BOOLEAN : updateInventoryStep(p, f)

UpdateCommit(p) == \E f \in BOOLEAN : updateCommit(p, f)

DeleteStart(p) ==
  \E t \in DOMAIN txns \cup {MissingId}, f \in BOOLEAN : deleteMetalTransaction(p, t, f)

DeleteFinish(p) == \E f \in BOOLEAN : deleteFinish(p, f)

\* an item position that no stored transaction has
MissingItem == 0

AddItem(p) ==
  \E t \in DOMAIN txns \cup {MissingId} : addStockItem(p, t, ItemPremium)

UpdateItem(p) ==
  \E t \in DOMAIN txns : \E sid \in {MissingItem, 1} : updateStockItem(p, t, sid, ItemPremium)

RemoveItem(p) ==
  \E t \in DOMAIN txns, f \in BOOLEAN :
    \E sid \in {MissingItem} \cup (1..Len(txns[t].stockItems)) : removeStockItem(p, t, sid, f)

EditRegistry(p) ==
  \E r \in registry, e \in RegistryEdits : updateRegistry(p, r.rid, e)

Transfer(p) ==
  \E r \in TransferRequests : accountToAccountTransfer(p, r[1], r[2], r[3], r[4])

TransferSaveReceiver(p) == \E f \in BOOLEAN : transferSaveReceiver(p, f)

TransferSaveSender(p) == \E f \in BOOLEAN : transferSaveSender(p, f)

TransferSaveRecords(p) == \E f \in BOOLEAN : transferSaveRecords(p, f)

Opening(p) ==
  \E r \in OpeningRequests : openingBalanceTransfer(p, r[1], r[2], r[3], r[4])

Handler(p) ==
  \/ Create(p)
  \/ CreateInventory(p)
  \/ UpdateStart(p)
  \/ UpdateMissing(p)
  \/ reversalWrite(p)
  \/ UpdateInsert(p)
  \/ UpdateInventory(p)
  \/ UpdateCommit(p)
  \/ updateReturn(p)
  \/ updateAbort(p)
  \/ DeleteStart(p)
  \/ DeleteFinish(p)
  \/ AddItem(p)
  \/ UpdateItem(p)
  \/ RemoveItem(p)
  \/ EditRegistry(p)
  \/ Transfer(p)
  \/ TransferSaveReceiver(p)
  \/ TransferSaveSender(p)
  \/ TransferSaveRecords(p)
  \/ Opening(p)
  \/ openingWrite(p)
  \/ openingSaveAccount(p)
  \/ openingSaveRecords(p)

Next == Handler("p1")

Spec == Init /\ [][Next]_vars

-----------------------------------------------------------------------------
(* Specification: two requests that change balances, interleaved at their
   database calls; each process serves one request *)

ConcurrentStep(p) ==
  \/ proc[p].pc = "idle" /\ Create(p)
  \/ proc[p].pc = "idle" /\ Transfer(p)
  \/ CreateInventory(p)
  \/ TransferSaveReceiver(p)
  \/ TransferSaveSender(p)
  \/ TransferSaveRecords(p)

NextConc == \E p \in Procs : ConcurrentStep(p)

SpecConc == Init /\ [][NextConc]_vars

-----------------------------------------------------------------------------
(* Specification: two opening-balance requests, interleaved at their
   database calls; each process serves one request *)

OpeningStep(p) ==
  \/ proc[p].pc = "idle" /\ Opening(p)
  \/ openingWrite(p)
  \/ openingSaveAccount(p)
  \/ openingSaveRecords(p)

NextOpening == \E p \in Procs : OpeningStep(p)

SpecOpening == Init /\ [][NextOpening]_vars

-----------------------------------------------------------------------------
(* Creates of every kind and mode *)

CreateAny(p) ==
  \E data \in BalancePayloads, f \in BOOLEAN :
    createMetalTransaction(p, data, 100, f)

NextCreate == CreateAny("p1") \/ CreateInventory("p1")

SpecCreate == Init /\ [][NextCreate]_vars

-----------------------------------------------------------------------------
(* Creates with every combination of the mode flags *)

CreateFlags(p) ==
  \E data \in ModePayloads, f \in BOOLEAN :
    createMetalTransaction(p, data, 100, f)

NextMode == CreateFlags("p1") \/ CreateInventory("p1")

SpecMode == Init /\ [][NextMode]_vars

-----------------------------------------------------------------------------
(* Postings of every kind and mode *)

CreatePosted(p) ==
  \E data \in PostingPayloads, f \in BOOLEAN :
    createMetalTransaction(p, data, 100, f)

NextPosting == CreatePosted("p1") \/ CreateInventory("p1")

SpecPosting == Init /\ [][NextPosting]_vars

-----------------------------------------------------------------------------
(* Specification: the operations on Metal Transactions, one request at a time *)

\* the totalAmountAED that a session-total request supplies
SessionTotals == {2000000}

UpdateSessionTotals(p) ==
  \E t \in DOMAIN txns \cup {MissingId}, f \in BOOLEAN :
    \E total \in SessionTotals : updateSessionTotals(p, t, total, f)

NextTotals ==
  \/ Create("p1")
  \/ CreateInventory("p1")
  \/ UpdateStart("p1")
  \/ reversalWrite("p1")
  \/ UpdateInsert("p1")
  \/ UpdateInventory("p1")
  \/ UpdateCommit("p1")
  \/ updateReturn("p1")
  \/ updateAbort("p1")
  \/ DeleteStart("p1")
  \/ DeleteFinish("p1")
  \/ AddItem("p1")
  \/ UpdateItem("p1")
  \/ RemoveItem("p1")
  \/ UpdateSessionTotals("p1")

SpecTotals == Init /\ [][NextTotals]_vars

-----------------------------------------------------------------------------
(* Specification: two update requests for one stored Metal Transaction,
   interleaved at their database calls; each process serves one request *)

\* the unfix purchase of one bar for party A
PostedPayload == Payload("purchase", FALSE, TRUE, "A", <<ItemBar>>, 0, "V1")

PostedDoc == createTransaction(PostedPayload)

PostedEntries == buildRegistryEntries(PostedDoc, 1, "A", 100)

\* the store after the create of PostedPayload has succeeded on the empty store
PostedStore ==
  [accounts |-> [InitAccounts EXCEPT !["A"] = ApplyInc(@, AccountBalanceInc(PostedDoc))],
   txns |-> (1 :> PostedDoc),
   registry |-> StoredRows(PostedEntries, 2),
   inventory |-> [InitInventory EXCEPT
                    !["S1"] = [pcs |-> @.pcs + ItemBar.pieces,
                               gross |-> @.gross + ItemBar.grossWeight]],
   invLog |-> {[lid |-> 2 + Len(PostedEntries), voucherCode |-> "V1",
                stockCode |-> "S1", action |-> "add"]},
   transfers |-> {},
   books |-> InitBooks]

InitPosted ==
  /\ accounts = PostedStore.accounts
  /\ txns = PostedStore.txns
  /\ registry = PostedStore.registry
  /\ inventory = PostedStore.inventory
  /\ invLog = PostedStore.invLog
  /\ transfers = PostedStore.transfers
  /\ books = PostedStore.books
  /\ nextId = 3 + Len(PostedEntries)
  /\ proc = [p \in Procs |-> IdleProc]
  /\ sess = [p \in Procs |-> NoSession]
  /\ pre = [p \in Procs |-> NoDoc]
  /\ hist = <<>>

UpdateStep(p) ==
  \/ proc[p].pc = "idle" /\ UpdateStart(p)
  \/ reversalWrite(p)
  \/ UpdateInsert(p)
  \/ UpdateInventory(p)
  \/ UpdateCommit(p)
  \/ updateReturn(p)
  \/ updateAbort(p)

NextUpdates == \E p \in Procs : UpdateStep(p)

SpecUpdates == InitPosted /\ [][NextUpdates]_vars

-----------------------------------------------------------------------------
(* Creates of every kind and mode with every mix of components *)

CreateBuilt(p) ==
  \E data \in BuildPayloads, f \in BOOLEAN :
    createMetalTransaction(p, data, 100, f)

NextBuild ==
  \/ CreateBuilt("p1")
  \/ CreateInventory("p1")

SpecBuild == Init /\ [][NextBuild]_vars

-----------------------------------------------------------------------------
(* Specification: Transaction Fixing requests, one at a time *)

Fixing(type, party, orders) == [partyId |-> party, type |-> type, orders |-> orders]

FixingPayloads ==
  { Fixing("PURCHASE", "A", <<FixingOrder(10000, 200)>>),
    Fixing("SELL", "A", <<FixingOrder(10000, 200), FixingOrder(5000, 210)>>),
    Fixing("SELL", "B", <<FixingOrder(5000, 210)>>),
    Fixing("PURCHASE", "A", <<>>),
    Fixing("PURCHASE", "A", <<FixingOrder(0, 200)>>) }

FixingUpdate(has, type, party, orders) ==
  [has |-> has, partyId |-> party, type |-> type, orders |-> orders]

\* the record sent back unchanged, another party alone, another party with
\* new orders, new orders alone, the other type alone
FixingUpdatePayloads(doc) ==
  { FixingUpdate({"partyId", "type", "orders"}, doc.type, doc.partyId, doc.orders),
    FixingUpdate({"orders"}, doc.type, doc.partyId, <<FixingOrder(20000, 200)>>),
    FixingUpdate({"type"}, IF doc.type = "SELL" THEN "PURCHASE" ELSE "SELL",
                 doc.partyId, doc.orders),
    FixingUpdate({"orders"}, doc.type, doc.partyId, <<>>) }
  \cup { FixingUpdate({"partyId"}, doc.type, a, doc.orders) : a \in {"A", "B"} \ {doc.partyId} }
  \cup { FixingUpdate({"partyId", "orders"}, doc.type, a, <<FixingOrder(20000, 200)>>) :
           a \in {"A", "B"} \ {doc.partyId} }

FixingCreate(p) ==
  \E data \in FixingPayloads, b \in BaseIds, f \in BOOLEAN :
    fixingCreateTransaction(p, data, b, f)

FixingUpdateAny(p) ==
  \E id \in DOMAIN books.fixing \cup {MissingId}, b \in BaseIds, f \in BOOLEAN :
    \E upd \in (IF id \in DOMAIN books.fixing THEN FixingUpdatePayloads(books.fixing[id])
                ELSE {FixingUpdate({"type"}, "SELL", "A", <<>>)}) :
      fixingUpdateTransaction(p, id, upd, b, f)

FixingDelete(p) ==
  \E id \in DOMAIN books.fixing \cup {MissingId}, f \in BOOLEAN :
    fixingDeleteTransaction(p, id, f)

FixingPermanentDelete(p) ==
  \E id \in DOMAIN books.fixing \cup {MissingId}, f \in BOOLEAN :
    permanentDeleteTransaction(p, id, f)

NextFixing ==
  \/ FixingCreate("p1")
  \/ FixingUpdateAny("p1")
  \/ FixingDelete("p1")
  \/ FixingPermanentDelete("p1")

SpecFixing == Init /\ [][NextFixing]_vars

-----------------------------------------------------------------------------
(* Creates and updates of every kind *)

CreateStocked(p) ==
  \E data \in InventoryPayloads, f \in BOOLEAN :
    createMetalTransaction(p, data, 100, f)

NextInventory ==
  \/ CreateStocked("p1")
  \/ CreateInventory("p1")
  \/ UpdateStart("p1")
  \/ reversalWrite("p1")
  \/ UpdateInsert("p1")
  \/ UpdateInventory("p1")
  \/ UpdateCommit("p1")
  \/ updateReturn("p1")
  \/ updateAbort("p1")

SpecInventory == Init /\ [][NextInventory]_vars

-----------------------------------------------------------------------------
(* Metal Transaction requests while trade debtors are being deactivated *)

DeleteTradeDebtor(p) == \E id \in Parties : deleteTradeDebtor(p, id)

NextParty == Handler("p1") \/ DeleteTradeDebtor("p1")

SpecParty == Init /\ [][NextParty]_vars

-----------------------------------------------------------------------------
(* Specification: receipt and payment entries, one request at a time *)

CreateEntry(p) ==
  \E r \in EntryRequests : createEntry(p, r[1], r[2], r[3], r[4])

EditEntry(p) ==
  \E r \in EntryRequests : editEntry(p, r[1], r[2], r[3], r[4])

EntryCashItem(p) == \E failed \in SUBSET EntryWrites : entryCashItem(p, failed)

EntrySave(p) == \E f \in BOOLEAN : entrySave(p, f)

EditReverse(p) == \E f \in {"no", "reverse", "account"} : editReverse(p, f)

EntryHandler(p) ==
  \/ CreateEntry(p)
  \/ EditEntry(p)
  \/ EntryCashItem(p)
  \/ EntrySave(p)
  \/ EditReverse(p)

NextEntry == EntryHandler("p1")

SpecEntry == Init /\ [][NextEntry]_vars

-----------------------------------------------------------------------------
(* Specification: Metal Transactions and entries in one Registry, one
   request at a time *)

\* the voucher codes of the entry requests and the voucher number of the
\* Metal Transactions
VoucherCodes == {"E1", "V1"}

EditEntryByVoucher(p) ==
  \E r \in EntryRequests, voucherCode \in VoucherCodes :
    editEntry(p, r[1], r[2], r[3], voucherCode)

NextVoucher ==
  \/ Create("p1")
  \/ CreateInventory("p1")
  \/ CreateEntry("p1")
  \/ EditEntryByVoucher("p1")
  \/ EntryCashItem("p1")
  \/ EntrySave("p1")
  \/ EditReverse("p1")

SpecVoucher == Init /\ [][NextVoucher]_vars

TypeOK ==
  /\ \A a \in Parties : accounts[a].cash \in Int
  /\ Len(hist) <= MaxOps

-----------------------------------------------------------------------------
(* Properties *)

DoneWith(p, op, res) ==
  proc[p].op = op /\ proc[p].pc = "done" /\ proc[p].result = res

\* C1: a create that has returned an error leaves nothing behind: the
\* transaction collection, the Registry, the party balances, the inventory
\* and the inventory log are as they were when the request started
C1_FailedCreateLeavesNothing ==
  \A p \in Procs : DoneWith(p, "create", "error") => store = pre[p]

\* the postings of the transaction and all balances as they were before the update
OldView(p) ==
  /\ RowsOf(registry, proc[p].t) = RowsOf(pre[p].registry, proc[p].t)
  /\ accounts = pre[p].accounts

\* the balances with the prior effect reversed and the new effect applied
UpdatedAccounts(p) ==
  [a \in Parties |->
     ApplyInc(ApplyInc(pre[p].accounts[a],
                       IF a = proc[p].oldParty THEN TradeDebtorsInc(proc[p].orig, TRUE)
                       ELSE ZeroInc),
              IF a = proc[p].newParty THEN AccountBalanceInc(proc[p].doc) ELSE ZeroInc)]

\* the rebuilt postings of the transaction together with the new balances
NewView(p) ==
  /\ RowsOf(registry, proc[p].t) \cap pre[p].registry = {}
  /\ Cardinality(RowsOf(registry, proc[p].t)) = Len(proc[p].entries)
  /\ accounts = UpdatedAccounts(p)

\* C2: during an update and after it has returned, the committed data shows
\* either the old postings with the old balances or the new postings with
\* the new balances
C2_UpdateNeverPartiallyVisible ==
  \A p \in Procs : proc[p].op = "update" /\ proc[p].doc # NoDoc =>
    OldView(p) \/ NewView(p)

\* C3: when the balance reversal of an update did not take effect, the
\* update has returned a failure and none of its effects is committed
C3_FailedReversalFailsUpdate ==
  \A p \in Procs :
    proc[p].op = "update" /\ proc[p].pc = "done" /\ proc[p].reversal = "lost" =>
      proc[p].result = "error" /\ store = pre[p]

\* C4: a delete that has failed leaves the transaction row, its Registry
\* rows and the balances exactly as they were before the delete
C4_FailedDeleteChangesNothing ==
  \A p \in Procs : DoneWith(p, "delete", "error") =>
    /\ txns = pre[p].txns
    /\ RowsOf(registry, proc[p].t) = RowsOf(pre[p].registry, proc[p].t)
    /\ accounts = pre[p].accounts

Within(x, y, tol) == x - y <= tol /\ y - x <= tol

\* C5: a create followed by the delete of the same transaction returns the
\* party's gold grams, gold value and cash amount to their values before
\* the create, within 0.01
C5_CreateThenDeleteRestoresBalances ==
  \A p \in Procs : hist = <<"create", "delete">> /\ DoneWith(p, "delete", "ok") =>
    \A a \in Parties :
      /\ Within(accounts[a].grams, InitAccounts[a].grams, 10)
      /\ Within(accounts[a].value, InitAccounts[a].value, 10)
      /\ Within(accounts[a].cash, InitAccounts[a].cash, 10)

\* C6: an update that sends back the stored stock items, totals and party
\* leaves every balance, once it has completed, equal to its value before
\* the update
C6_SameDataUpdateKeepsBalances ==
  \A p \in Procs :
    DoneWith(p, "update", "ok") /\ proc[p].upd = SamePayload(proc[p].orig) =>
      accounts = pre[p].accounts

Negated(inc) == Inc(-inc.grams, -inc.value, -inc.cash)

\* C7: after an update that moves the transaction from party A to party B,
\* A has lost the effect the original transaction had on it and B has
\* gained the effect of the updated transaction
C7_PartyChangeMovesEffect ==
  \A p \in Procs :
    DoneWith(p, "update", "ok") /\ proc[p].oldParty # proc[p].newParty =>
      /\ accounts[proc[p].oldParty] =
           ApplyInc(pre[p].accounts[proc[p].oldParty],
                    Negated(AccountBalanceInc(proc[p].orig)))
      /\ accounts[proc[p].newParty] =
           ApplyInc(pre[p].accounts[proc[p].newParty], AccountBalanceInc(proc[p].doc))

\* what a completed request adds to an account, by its own delta formula
OwnDelta(p, a) ==
  IF proc[p].op = "create" /\ proc[p].doc # NoDoc
  THEN IF a = proc[p].doc.partyCode THEN AccountBalanceInc(proc[p].doc) ELSE ZeroInc
  ELSE IF proc[p].op = "transfer" /\ proc[p].local # NoDoc
  THEN LET l == proc[p].local
           amt == IF a = l.sender THEN -Abs(l.value)
                  ELSE IF a = l.receiver THEN Abs(l.value) ELSE 0
       IN IF l.field = "cash" THEN Inc(0, 0, amt) ELSE Inc(amt, 0, 0)
  ELSE ZeroInc

\* C8: when two balance-changing requests have both completed, every
\* account holds its starting gold grams and cash amount plus the deltas
\* of both requests
C8_NoLostBalanceUpdate ==
  (\A p \in Procs : proc[p].pc = "done" /\ proc[p].result = "ok") =>
    \A a \in Parties :
      /\ accounts[a].grams = InitAccounts[a].grams + OwnDelta("p1", a).grams
                             + OwnDelta("p2", a).grams
      /\ accounts[a].cash = InitAccounts[a].cash + OwnDelta("p1", a).cash
                            + OwnDelta("p2", a).cash

\* C9: a status update to cancelled leaves the Registry rows of the
\* transaction and the balances as they were before the request
C9_CancelKeepsPostingsAndBalances ==
  \A p \in Procs :
    DoneWith(p, "update", "ok") /\ proc[p].upd.has = {"status"} =>
      /\ RowsOf(registry, proc[p].t) = RowsOf(pre[p].registry, proc[p].t)
      /\ accounts = pre[p].accounts

\* C10: as long as a Registry row exists its value, debit and credit keep
\* the values it was created with
C10_RegistryRowsNeverEdited ==
  [][\A r \in registry : \A q \in registry' :
       q.rid = r.rid => q.value = r.value /\ q.debit = r.debit /\ q.credit = r.credit]_vars


\* C11: every persisted Metal Transaction has at least one stock item,
\* whatever create, update, add-item, update-item and remove-item requests
\* have been served
C11_AtLeastOneStockItem ==
  \A t \in DOMAIN txns : Len(txns[t].stockItems) >= 1

\* the removal of the only stock item of a transaction has been rejected
C11_LastItemRemovalRejected ==
  \E p \in Procs :
    /\ DoneWith(p, "removeStockItem", "error")
    /\ proc[p].t \in DOMAIN txns
    /\ proc[p].idx = 1
    /\ Len(txns[proc[p].t].stockItems) = 1

\* the requests served by the Balance Mutator of the Metal Transaction service
MutatorOps == {"create", "update", "delete", "addStockItem"}

\* C12: a step that changes the gold grams, gold value or cash amount of an
\* account is a step of the Balance Mutator, taken for a Metal Transaction
\* request; the request handlers of entries never write these fields
C12_OnlyBalanceMutatorWritesBalances ==
  [][accounts' # accounts => \E p \in Procs : proc'[p].op \in MutatorOps]_vars

\* C13: an entry request that has returned an error has persisted nothing:
\* no balance change, no Registry row, no account log and no cash account
\* change of it is left
C13_EntryAllOrNothing ==
  \A p \in Procs :
    (proc[p].op \in {"createEntry", "editEntry"} /\ proc[p].pc = "done"
       /\ proc[p].result = "error") => store = pre[p]

\* C14: a create-entry request that has been rejected because one of its
\* cash items is invalid has written nothing by the time it is rejected
C14_InvalidInputRejectedBeforeWrites ==
  \A p \in Procs :
    (/\ DoneWith(p, "createEntry", "error")
     /\ proc[p].local # NoDoc
     /\ proc[p].idx <= Len(proc[p].local.entry.cash)
     /\ ~validCashItem(proc[p].local.entry.cash[proc[p].idx])) => store = pre[p]

\* C15: a Metal Transaction request that needs the party account does not
\* succeed when the party is inactive: a delete that has succeeded was made
\* for a transaction whose party was active when the request started
C15_InactivePartyRejected ==
  \A p \in Procs :
    DoneWith(p, "delete", "ok") => pre[p].accounts[proc[p].doc.partyCode].isActive

\* the change of the party's balances since the request of p started
PartyDelta(p) ==
  LET a == proc[p].doc.partyCode
  IN Inc(accounts[a].grams - pre[p].accounts[a].grams,
         accounts[a].value - pre[p].accounts[a].value,
         accounts[a].cash - pre[p].accounts[a].cash)

CreatedIn(p, kinds, mode) ==
  /\ DoneWith(p, "create", "ok")
  /\ proc[p].doc.transactionType \in kinds
  /\ getTransactionMode(proc[p].doc.fixed, proc[p].doc.unfix) = mode

\* C16 as stated: a created fix-mode transaction of any kind has changed the
\* party's gold grams and gold value by 0 and its cash by exactly plus or
\* minus the transaction's totalAmountAED
C16_FixCashDeltaIsTotal ==
  \A p \in Procs :
    CreatedIn(p, Kinds, "fix") =>
      PartyDelta(p) \in {Inc(0, 0, proc[p].doc.totalAmountAED),
                         Inc(0, 0, -proc[p].doc.totalAmountAED)}

\* C16 amended: a created fix-mode transaction of any kind has changed the
\* party's gold grams and gold value by 0 and its cash by plus (purchase,
\* sale return) or minus (sale, purchase return) the transaction's
\* totalAmountAED rounded to 2 decimal places
C16_FixCashDeltaIsRoundedTotal ==
  \A p \in Procs :
    CreatedIn(p, Kinds, "fix") =>
      PartyDelta(p) =
        Inc(0, 0, (IF IsSale(proc[p].doc.transactionType) THEN -1 ELSE 1)
                    * ((proc[p].doc.totalAmountAED + 5) \div 10) * 10)

\* a fix-mode purchase return whose total has three decimals has been created
C16_FixCreatedWithFractionalTotal ==
  \E p \in Procs :
    /\ CreatedIn(p, {"purchaseReturn"}, "fix")
    /\ proc[p].doc.totalAmountAED = 101234
    /\ PartyDelta(p).cash = -101230

\* the totals of the stored document of p's request
DocTotals(p) == calculateTotals(proc[p].doc.stockItems, proc[p].doc.totalAmountAED)

\* C17: a created unfix purchase has increased the party's gold grams by the
\* transaction's total pure weight and has changed its cash by making charges
\* plus premium minus discount, rounded to 2 decimal places
C17_UnfixPurchaseDelta ==
  \A p \in Procs :
    CreatedIn(p, {"purchase"}, "unfix") =>
      LET net == DocTotals(p).makingCharges + DocTotals(p).premium - DocTotals(p).discount
      IN /\ PartyDelta(p).grams =
              Sum([i \in 1..Len(proc[p].doc.stockItems) |-> proc[p].doc.stockItems[i].pureWeight])
         /\ PartyDelta(p).cash = ((net + 5) \div 10) * 10

\* an unfix purchase of 110 g with making charges 52.004 and a discount of
\* 0.500 has been created: the cash has moved by 51.50
C17_UnfixPurchaseCreated ==
  \E p \in Procs :
    /\ CreatedIn(p, {"purchase"}, "unfix")
    /\ proc[p].doc.stockItems = <<ItemBar, ItemRebate>>
    /\ PartyDelta(p).grams = 110000
    /\ PartyDelta(p).cash = 51500

\* C18: the deltas a created unfix sale has applied to the party are the
\* exact negation of the deltas an unfix purchase with the same totals
\* applies, the rounded cash delta included
C18_UnfixSaleNegatesPurchase ==
  \A p \in Procs :
    CreatedIn(p, {"sale"}, "unfix") =>
      PartyDelta(p) =
        Negated(AccountBalanceInc([proc[p].doc EXCEPT !.transactionType = "purchase"]))

\* an unfix sale whose net cash change of 1.234 is not a multiple of 0.01 has
\* been created
C18_UnfixSaleCreated ==
  \E p \in Procs :
    /\ CreatedIn(p, {"sale"}, "unfix")
    /\ proc[p].doc.stockItems = <<ItemValueOnly>>
    /\ PartyDelta(p).cash = -1230

\* C19: a created fix-mode sale or purchase return has taken its total from
\* the party's cash whatever the cash amount was: the create is not rejected
\* and the amount is not held at zero when the total exceeds it
C19_NegativeBalanceAllowed ==
  \A p \in Procs :
    CreatedIn(p, {"sale", "purchaseReturn"}, "fix") =>
      accounts[proc[p].doc.partyCode].cash =
        pre[p].accounts[proc[p].doc.partyCode].cash
          - ((proc[p].doc.totalAmountAED + 5) \div 10) * 10

\* a fix-mode sale of 5000 against a cash amount of 1000 has succeeded and
\* has left the cash amount at -4000
C19_SaleBelowZeroCreated ==
  \E p \in Procs :
    /\ CreatedIn(p, {"sale"}, "fix")
    /\ proc[p].doc.totalAmountAED = 5000000
    /\ pre[p].accounts[proc[p].doc.partyCode].cash = 1000000
    /\ accounts[proc[p].doc.partyCode].cash = -4000000

\* C20: after a delete of a Metal Transaction has succeeded, no Registry row
\* carries that transaction's id
C20_DeleteLeavesNoRegistryRow ==
  \A p \in Procs :
    DoneWith(p, "delete", "ok") => RowsOf(registry, proc[p].t) = {}

\* a transaction that had party rows and stock rows in the Registry has been
\* deleted
C20_PostedTransactionDeleted ==
  \E p \in Procs :
    /\ DoneWith(p, "delete", "ok")
    /\ \E r \in RowsOf(pre[p].registry, proc[p].t) : r.party # NoParty
    /\ \E r \in RowsOf(pre[p].registry, proc[p].t) : r.party = NoParty

\* C21: the mode of every stored transaction is "fix" exactly when its
\* fixed flag is set and its unfix flag is not, and "unfix" for the three
\* other combinations of the flags
C21_FixOnlyWhenFixedAlone ==
  \A t \in DOMAIN txns :
    getTransactionMode(txns[t].fixed, txns[t].unfix) =
      IF txns[t].fixed /\ ~txns[t].unfix THEN "fix" ELSE "unfix"

\* the Registry rows the Posting Builder has produced
BuilderRows == {r \in registry : r.owner[1] = "metal"}

\* the component of the totals a row of a given type is posted for
ComponentOf(type) ==
  CASE type \in {"PARTY_GOLD_BALANCE", "GOLD", "purchase-fixing", "sales-fixing",
                 "sale-fixing"} -> "pureWeight"
    [] type = "GOLD_STOCK" -> "grossWeight"
    [] type = "MAKING_CHARGES" -> "makingCharges"
    [] type = "OTHER_CHARGES" -> "otherChargesAmount"
    [] type = "VAT_AMOUNT" -> "vatAmount"
    [] type = "PREMIUM" -> "premium"
    [] type = "DISCOUNT" -> "discount"
    [] OTHER -> "none"

\* the magnitude of a component on one stock item
ItemComponent(it, c) ==
  CASE c = "pureWeight" -> it.pureWeight
    [] c = "grossWeight" -> it.grossWeight
    [] c = "makingCharges" -> IF it.makingChargesTotal # 0 THEN it.makingChargesTotal
                              ELSE it.makingAmount
    [] c = "otherChargesAmount" -> it.otherAmount
    [] c = "vatAmount" -> it.vatAmount
    [] c = "premium" -> IF it.premiumTotal # 0 THEN it.premiumTotal ELSE it.premiumAmount
    [] c = "discount" -> -(IF it.premiumTotal # 0 THEN it.premiumTotal ELSE it.premiumAmount)

\* C22: every Registry row of the Posting Builder has a strictly positive
\* value, and a transaction none of whose stock items has a component has no
\* row of the type posted for that component
C22_PostedValuesPositive ==
  /\ \A r \in BuilderRows : r.value > 0
  /\ \A r \in BuilderRows :
       (r.owner[2] \in DOMAIN txns /\ ComponentOf(r.type) # "none") =>
         \E i \in 1..Len(txns[r.owner[2]].stockItems) :
           ItemComponent(txns[r.owner[2]].stockItems[i], ComponentOf(r.type)) > 0

\* a fix-mode sale without pure weight and without gross weight has been
\* posted: it has rows, none of them for gold
C22_WeightlessSalePosted ==
  \E t \in DOMAIN txns :
    /\ txns[t].transactionType = "sale" /\ txns[t].fixed
    /\ txns[t].stockItems = <<ItemValueOnly>>
    /\ RowsOf(registry, t) # {}
    /\ \A r \in RowsOf(registry, t) : r.type \in {"PARTY_CASH_BALANCE", "MAKING_CHARGES"}

\* C23: every Registry row of the Posting Builder has exactly one of debit
\* and credit different from zero, and that one equals the row's value
C23_OneSidedRows ==
  \A r \in BuilderRows :
    \/ r.debit = r.value /\ r.credit = 0 /\ r.value # 0
    \/ r.credit = r.value /\ r.debit = 0 /\ r.value # 0

\* C24: no two Registry rows of the Posting Builder carry the same
\* transactionId, that is the same base id and the same suffix
C24_TransactionIdsUnique ==
  \A r1 \in BuilderRows : \A r2 \in BuilderRows :
    r1.rid # r2.rid => <<r1.base, r1.suffix>> # <<r2.base, r2.suffix>>

\* C25: a step of a create, update or delete of a Metal Transaction that
\* changes an account's cash amount changes it by an amount of 2 decimal
\* places, a multiple of 0.01
C25_CashIncrementsRounded ==
  [][\A p \in Procs : \A a \in Parties :
       (proc'[p].op \in {"create", "update", "delete"} /\ proc'[p] # proc[p]) =>
         (accounts'[a].cash - accounts[a].cash) % 10 = 0]_vars

\* the pieces and the gross weight of the stock items of a document that are
\* of stock s
PiecesOf(doc, s) ==
  Sum([i \in 1..Len(doc.stockItems) |->
         IF doc.stockItems[i].stockCode = s THEN doc.stockItems[i].pieces ELSE 0])

GrossOf(doc, s) ==
  Sum([i \in 1..Len(doc.stockItems) |->
         IF doc.stockItems[i].stockCode = s THEN doc.stockItems[i].grossWeight ELSE 0])

\* C26: a create or an update that has succeeded has adjusted the inventory
\* once for every stock item of the transaction: pieces and gross weight are
\* subtracted for sale and purchaseReturn and added for purchase and saleReturn
C26_InventoryAdjustedOncePerItem ==
  \A p \in Procs :
    (proc[p].op \in {"create", "update"} /\ proc[p].pc = "done" /\ proc[p].result = "ok") =>
      \A s \in Stocks :
        LET factor == IF proc[p].doc.transactionType \in {"sale", "purchaseReturn"}
                      THEN -1 ELSE 1
        IN IF pre[p].inventory[s] = NoDoc THEN inventory[s] = NoDoc
           ELSE /\ inventory[s].pcs =
                     pre[p].inventory[s].pcs + factor * PiecesOf(proc[p].doc, s)
                /\ inventory[s].gross =
                     pre[p].inventory[s].gross + factor * GrossOf(proc[p].doc, s)

\* a purchase return of two stock items has been updated: the three pieces
\* and the 115 g have left the inventory again
C26_PurchaseReturnUpdated ==
  \E p \in Procs :
    /\ DoneWith(p, "update", "ok")
    /\ proc[p].doc.transactionType = "purchaseReturn"
    /\ proc[p].doc.stockItems = <<ItemBar, ItemRebate>>
    /\ inventory["S1"].pcs = pre[p].inventory["S1"].pcs - 3
    /\ inventory["S1"].gross = pre[p].inventory["S1"].gross - 115000

\* C27: a status update that asks for cancelled on a draft or confirmed
\* transaction and has succeeded leaves the stored status cancelled
C27_CancelRequestCancels ==
  \A p \in Procs :
    ( /\ DoneWith(p, "update", "ok")
      /\ "status" \in proc[p].upd.has
      /\ proc[p].upd.status = "cancelled"
      /\ proc[p].orig.status \in {"draft", "confirmed"}
      /\ proc[p].t \in DOMAIN txns ) =>
        txns[proc[p].t].status = "cancelled"

\* the fields of a stored document that an update may set
AllowedFields ==
  {"partyCode", "stockItems", "totalAmountAED", "voucherNumber", "transactionType",
   "fixed", "unfix"}

\* C28: an update that has succeeded has changed none of the fields outside
\* the allow-list, whatever the request supplied, and has left the party and
\* the stock items alone when it did not supply them
C28_UpdateFrame ==
  \A p \in Procs :
    (DoneWith(p, "update", "ok") /\ proc[p].t \in DOMAIN txns) =>
      LET doc == txns[proc[p].t]
          orig == proc[p].orig
      IN /\ \A f \in DOMAIN doc \ AllowedFields : doc[f] = orig[f]
         /\ "partyCode" \notin proc[p].upd.has => doc.partyCode = orig.partyCode
         /\ "stockItems" \notin proc[p].upd.has => doc.stockItems = orig.stockItems

\* an update that supplied a field outside the allow-list, with a value other
\* than the stored one, has succeeded
C28_OffListFieldSupplied ==
  \E p \in Procs :
    /\ DoneWith(p, "update", "ok")
    /\ proc[p].t \in DOMAIN txns
    /\ "status" \in proc[p].upd.has
    /\ proc[p].upd.status # proc[p].orig.status

\* the operations on Metal Transactions
MetalOps ==
  {"create", "update", "delete", "addStockItem", "updateStockItem", "removeStockItem",
   "updateSessionTotals"}

RECURSIVE ExpectedBalance(_, _)
\* the starting balance of party a plus the balance deltas, by kind, mode and
\* stored totals, of the transactions ids that are stored for it
ExpectedBalance(a, ids) ==
  IF ids = {} THEN Inc(InitAccounts[a].grams, InitAccounts[a].value, InitAccounts[a].cash)
  ELSE LET t == CHOOSE x \in ids : TRUE
           rest == ExpectedBalance(a, ids \ {t})
           d == IF txns[t].partyCode = a THEN AccountBalanceInc(txns[t]) ELSE ZeroInc
       IN Inc(rest.grams + d.grams, rest.value + d.value, rest.cash + d.cash)

\* C29: when every request so far was an operation on Metal Transactions and
\* all of them have completed, each party's gold grams and cash are its
\* starting values plus the balance deltas of the transactions that exist
C29_BalancesAreSumOfDeltas ==
  ( /\ \A i \in 1..Len(hist) : hist[i] \in MetalOps
    /\ \A p \in Procs : proc[p].pc \in {"idle", "done"} ) =>
      \A a \in Parties :
        /\ accounts[a].grams = ExpectedBalance(a, DOMAIN txns).grams
        /\ accounts[a].cash = ExpectedBalance(a, DOMAIN txns).cash

RECURSIVE ValueSum(_)
\* the sum of the values of a set of Registry rows
ValueSum(rows) ==
  IF rows = {} THEN 0
  ELSE LET r == CHOOSE x \in rows : TRUE IN r.value + ValueSum(rows \ {r})

\* C30: the PARTY_CASH_BALANCE rows of a created fix-mode transaction, of one
\* stock item or of several, add up to the magnitude of the cash delta that
\* was applied to the party
C30_CashRowsMatchCashDelta ==
  \A p \in Procs :
    (CreatedIn(p, Kinds, "fix") /\ proc[p].t \in DOMAIN txns) =>
      ValueSum({r \in RowsOf(registry, proc[p].t) : r.type = "PARTY_CASH_BALANCE"})
        = Abs(PartyDelta(p).cash)

RECURSIVE ExpectedStock(_, _, _)
\* the starting pieces and gross weight of stock s plus the signed
\* adjustments of the stock items of the transactions ids of the collection tx
ExpectedStock(tx, ids, s) ==
  IF ids = {} THEN InitInventory[s]
  ELSE LET t == CHOOSE x \in ids : TRUE
           rest == ExpectedStock(tx, ids \ {t}, s)
           factor == IF tx[t].transactionType \in {"sale", "purchaseReturn"} THEN -1 ELSE 1
       IN [pcs |-> rest.pcs + factor * PiecesOf(tx[t], s),
           gross |-> rest.gross + factor * GrossOf(tx[t], s)]

\* the stock on hand of a store is what its transactions account for
InventoryLaw(st) ==
  \A s \in Stocks :
    st.inventory[s] # NoDoc => st.inventory[s] = ExpectedStock(st.txns, DOMAIN st.txns, s)

\* C31: a create, update or delete that has succeeded on a store whose stock
\* on hand was the starting stock plus the adjustments of its transactions
\* leaves a store of which that is true again
C31_InventoryFollowsTransactions ==
  \A p \in Procs :
    ( /\ proc[p].op \in {"create", "update", "delete"}
      /\ proc[p].pc = "done" /\ proc[p].result = "ok"
      /\ InventoryLaw(pre[p]) ) => InventoryLaw(store)

\* the store that the two update requests start from is one that a create leaves
PostedStoreReached == store = PostedStore /\ nextId = 3 + Len(PostedEntries)

\* C32: when two update requests for one transaction have both finished, each
\* party's gold grams and cash are its starting values plus the balance delta
\* of the finally stored state of the transaction: the original effect is
\* gone and the final effect is there once
C32_ConcurrentUpdatesLeaveOneEffect ==
  ( /\ \A p \in Procs : proc[p].op = "update" /\ proc[p].pc = "done"
    /\ \A p \in Procs, q \in Procs : proc[p].t = proc[q].t ) =>
      \A a \in Parties :
        /\ accounts[a].grams = ExpectedBalance(a, DOMAIN txns).grams
        /\ accounts[a].cash = ExpectedBalance(a, DOMAIN txns).cash

\* C33: a create of a valid transaction for an active party, of any kind and
\* mode and with any mix of components, in which nothing else fails is not
\* answered with an error: building its postings raises nothing
C33_BuildingNeverRaises ==
  [][\A data \in BuildPayloads :
       ( /\ createMetalTransaction("p1", data, 100, FALSE)
         /\ validateTransactionData(data)
         /\ validateParty(data.partyCode) ) => proc'["p1"].result # "error"]_vars

\* C34: a Transaction Fixing update that has moved the record from one party
\* to another has taken the effect of the original orders from the gold
\* grams and the cash of the old party and has added the effect of the new
\* orders to those of the new party
C34_FixingPartyChangeMovesEffect ==
  \A p \in Procs :
    (DoneWith(p, "fixingUpdate", "ok") /\ proc[p].orig.partyId # proc[p].doc.partyId) =>
      LET old == proc[p].orig.partyId
          new == proc[p].doc.partyId
          before == FixingChange(proc[p].orig.type, proc[p].orig.orders)
          after == FixingChange(proc[p].doc.type, proc[p].doc.orders)
      IN /\ accounts[old].grams = pre[p].accounts[old].grams - before.grams
         /\ accounts[old].cash = pre[p].accounts[old].cash - before.cash
         /\ accounts[new].grams = pre[p].accounts[new].grams + after.grams
         /\ accounts[new].cash = pre[p].accounts[new].cash + after.cash

\* C35: a delete or a permanent delete of a Transaction Fixing record that
\* has succeeded has taken the effect of the record's orders from the party's
\* gold grams and cash and has left no Registry row of the record
C35_FixingRemovalRemovesEffect ==
  \A p \in Procs :
    ( /\ proc[p].op \in {"fixingDelete", "fixingPermanentDelete"}
      /\ proc[p].pc = "done" /\ proc[p].result = "ok" ) =>
      LET party == proc[p].doc.partyId
          effect == FixingChange(proc[p].doc.type, proc[p].doc.orders)
      IN /\ accounts[party].grams = pre[p].accounts[party].grams - effect.grams
         /\ accounts[party].cash = pre[p].accounts[party].cash - effect.cash
         /\ FixingRowsOf(registry, proc[p].t) = {}

\* C36: an edit of an entry that has succeeded and has changed neither the
\* type, the party nor the cash items of the entry leaves the party's cash
\* amount and gold grams as they were before the edit
C36_SameEditKeepsBalances ==
  \A p \in Procs :
    ( /\ DoneWith(p, "editEntry", "ok")
      /\ proc[p].local.entry.type = proc[p].local.oldentry.type
      /\ proc[p].local.entry.party = proc[p].local.oldentry.party
      /\ proc[p].local.entry.cash = proc[p].local.oldentry.cash ) =>
      LET party == proc[p].local.entry.party
      IN /\ accounts[party].cash = pre[p].accounts[party].cash
         /\ accounts[party].grams = pre[p].accounts[party].grams

\* C37: when an edit request for an entry has finished, every Registry row
\* that was there before it and that belongs to a Metal Transaction, a
\* Transaction Fixing record or a fund transfer is still there
C37_EditKeepsForeignRows ==
  \A p \in Procs :
    (proc[p].op = "editEntry" /\ proc[p].pc = "done") =>
      \A r \in pre[p].registry : r.owner[1] # "entry" => r \in registry

\* C38: a fund transfer of a negative value that has succeeded has raised
\* the sender's balance of the asset by the magnitude of the value and has
\* lowered the receiver's by the same
C38_NegativeTransferReverses ==
  \A p \in Procs :
    (DoneWith(p, "transfer", "ok") /\ proc[p].local.value < 0) =>
      LET l == proc[p].local
      IN /\ accounts[l.sender][l.field] = pre[p].accounts[l.sender][l.field] + Abs(l.value)
         /\ accounts[l.receiver][l.field] = pre[p].accounts[l.receiver][l.field] - Abs(l.value)

\* the opening-balance requests for party a and the asset type that have
\* been accepted
AcceptedOpenings(a, assetType) ==
  {p \in Procs : /\ DoneWith(p, "opening", "ok")
                 /\ proc[p].local.receiver = a
                 /\ proc[p].local.assetType = assetType}

\* C39: when only opening-balance requests have run and all of them have
\* returned, a party's balance of an asset is its balance before them plus
\* the value of one accepted opening-balance request for that party and
\* asset, never more than one of them
C39_OpeningCountsOnce ==
  \A a \in Parties, assetType \in {"CASH", "GOLD"} :
    LET field == IF assetType = "CASH" THEN "cash" ELSE "grams"
    IN ( /\ \A p \in Procs : proc[p].pc \in {"idle", "done"}
         /\ AcceptedOpenings(a, assetType) # {} ) =>
         \E p \in AcceptedOpenings(a, assetType) :
           accounts[a][field] = InitAccounts[a][field] + proc[p].local.value

\* two opening-balance requests for the same party and asset have both been
\* accepted
C39_TwoOpeningsAccepted ==
  \E a \in Parties, assetType \in {"CASH", "GOLD"} :
    /\ AcceptedOpenings(a, assetType) = Procs
    /\ proc["p1"].local.value # proc["p2"].local.value

====
